---- MODULE Spec2Model ----
(***************************************************************************)
(* The MCP protocol adapter of nwsl-data-platform: the JSON-RPC endpoint   *)
(* of http_server_v2.py and the tool handlers of analytics_server.py (the  *)
(* "analytics" server) and server.py (the "basic" fallback server), over   *)
(* an external warehouse that answers queries, fails, or holds no rows.    *)
(***************************************************************************)
EXTENDS Integers, Sequences, FiniteSets, TLC

\* ------------------------------------------------------------------ bounds
\* Largest number of rows the warehouse table holds in the model.
MaxRows == 2

\* --------------------------------------------------------- program constants
PARSE_ERROR == -32700
INVALID_REQUEST == -32600
METHOD_NOT_FOUND == -32601
INVALID_PARAMS == -32602
INTERNAL_ERROR == -32603
MCP_PROTOCOL_VERSION == "2024-11-05"
project_id == "nwsl-data"

\* ------------------------------------------------------------- JSON values
\* A JSON value that is passed through untouched (the request id).
JNull == [t |-> "null"]
JStr(s) == [t |-> "string", s |-> s]
JNum(n) == [t |-> "number", n |-> n]

\* A JSON object is a function from the keys it holds to their values.
EmptyDict == [k \in {} |-> ""]

\* dict.get(k, default)
Get(d, k, default) == IF k \in DOMAIN d THEN d[k] ELSE default

\* Python's None where a string is expected, and str(None).
None == "<None>"
Falsy(v) == v = None \/ v = ""
StrOf(v) == IF v = None THEN "None" ELSE v

\* Right-biased union of two dicts.
Merge(a, b) == [k \in DOMAIN a \cup DOMAIN b |-> IF k \in DOMAIN b THEN b[k] ELSE a[k]]

Min2(a, b) == IF a < b THEN a ELSE b

\* ------------------------------------------------------------ tool catalog
\* A ToolDescriptor keeps what its inputSchema constrains: the required keys,
\* the enum of a key, the minimum/maximum of a key and the keys with the
\* season pattern ^20[0-9]{2}$.
NoEnum == [k \in {} |-> {}]
NoBounds == [k \in {} |-> <<0, 0>>]

Tool(name, required, enum, bounds, pattern) ==
    [name |-> name, required |-> required, enum |-> enum, bounds |-> bounds, pattern |-> pattern]

XgTypes == {"player_xg", "league_patterns", "overperformers", "team_efficiency"}
ShotTypes == {"player_profiles", "positional_patterns", "quality_leaders", "team_styles"}
WarTypes == {"replacement_baselines", "player_war", "team_construction", "undervalued_players"}
RosterTypes == {"current_form", "best_xi", "key_contributors", "underperformers", "recent_signings"}
SortKeys == {"total_contributions", "goals", "assists", "expected_goals", "minutes_played"}
DataTypes == {"squad_stats", "player_stats", "games", "team_info", "fbref_team_stats",
              "fbref_player_stats", "fbref_matches", "fbref_player_match_stats"}
CorrelationTypes == {"team_performance", "player_performance", "match_outcomes"}
GameSeasons == {"2021", "2022", "2023", "2024", "all"}

\* The research tools advertised when the xG calculator is available.
ResearchTools == <<
    Tool("expected_goals_analysis", {"analysis_type", "season"}, [analysis_type |-> XgTypes], NoBounds, {}),
    Tool("shot_quality_analysis", {"analysis_type", "season"}, [analysis_type |-> ShotTypes], NoBounds, {}),
    Tool("replacement_value_analysis", {"analysis_type", "season"}, [analysis_type |-> WarTypes], NoBounds, {}),
    Tool("query_raw_data", {"query"}, NoEnum, NoBounds, {}),
    Tool("get_team_roster", {"team", "season"}, [sort_by |-> SortKeys], NoBounds, {}),
    Tool("roster_intelligence", {"team", "season", "analysis_type"}, [analysis_type |-> RosterTypes], NoBounds, {}),
    Tool("ingest_current_roster", {"team", "fbref_url"}, NoEnum, NoBounds, {}) >>

\* The basic tools list that tools/list falls back to.
BasicTools == <<
    Tool("get_raw_data", {"data_type", "season"}, [data_type |-> DataTypes], [limit |-> <<1, 1000>>], {"season"}),
    Tool("get_player_stats", {"season"}, NoEnum, [limit |-> <<1, 100>>], {"season"}),
    Tool("get_team_stats", {"season"}, NoEnum, NoBounds, {"season"}),
    Tool("get_standings", {"season"}, NoEnum, NoBounds, {"season"}),
    Tool("get_match_results", {"season"}, NoEnum, [limit |-> <<1, 50>>], {"season"}),
    Tool("analyze_player_performance", {"player_name", "season"}, NoEnum, NoBounds, {"season"}),
    Tool("analyze_team_performance", {"team_name", "season"}, NoEnum, NoBounds, {"season"}),
    Tool("find_correlations", {"analysis_type", "season"}, [analysis_type |-> CorrelationTypes], NoBounds, {"season"}),
    Tool("compare_teams", {"team1", "team2", "season"}, NoEnum, NoBounds, {"season"}),
    Tool("get_nwsl_players", {}, NoEnum, [limit |-> <<1, 500>>], {}),
    Tool("get_nwsl_teams", {}, NoEnum, NoBounds, {}),
    Tool("get_nwsl_games", {"season"}, [season |-> GameSeasons], [limit |-> <<1, 200>>], {}) >>

Names(tools) == {tools[i].name : i \in 1..Len(tools)}

\* --------------------------------------------------------------- the state
VARIABLES
    SERVER_TYPE,   \* "analytics" or "basic": which server module was imported
    modules,       \* TRUE when the analytics modules (calculators) were imported
    started,       \* TRUE once startup_event has run
    mcp_server,    \* NoServer, or the NWSLAnalyticsServer object
    storeUp,       \* TRUE while the warehouse answers queries
    storeRows,     \* number of rows the warehouse table holds
    request,       \* the body of the POST /mcp being served, or NoRequest
    response,      \* the response to it, or NoResponse
    handlerRan,    \* the tool handler the request reached, or ""
    queries,       \* the queries the request sent to the warehouse
    page,          \* what the scrape of the request met, or NoPage
    repeated,      \* TRUE when the same body had just been served before
    inflight,      \* the requests being served concurrently, by connection
    fb,            \* the FBrefAPIClient of the ingestion scripts
    run,           \* the ingestion or deployment in progress, or NoRun
    applied        \* the last call of a helper of the server, or NoCall

vars == <<SERVER_TYPE, modules, started, mcp_server, storeUp, storeRows,
          request, response, handlerRan, queries, page, repeated, inflight, fb, run, applied>>

NoServer == [kind |-> "None"]
NoRequest == [kind |-> "none"]
NoResponse == [kind |-> "none"]
NoPage == "none"

\* The connections of the concurrent specification, and one that is idle.
Slots == {1, 2}
Idle == [pc |-> "idle"]

\* The attributes of the server object that the handlers read: the store
\* client (TRUE: a client, FALSE: None) and the calculators, each "obj",
\* "None" or "unset" (the attribute was never assigned).
ServerObject(client, calc) ==
    [kind |-> "server", bigquery_client |-> client,
     xg_calculator |-> calc, shot_profiler |-> calc, war_estimator |-> calc]

\* ----------------------------------------------------------- the warehouse
\* The warehouse holds storeRows rows, all of season KnownSeason, player
\* "Smith", team "Courage"; its per-season tables exist for KnownSeason only.
KnownSeason == "2024"

\* int(season) succeeds on digit strings; the season pattern is ^20[0-9]{2}$.
IsInt(s) == s \in {"2024", "1999"}
MatchesSeasonPattern(s) == s \in {"2024"}

\* str.lower() and str.strip() over the names of the model: the spellings in
\* upper and title case of every key of team_mappings, the squad names, and
\* two names that are no team's; each with up to MaxPad spaces on either side.
MaxPad == 1
RECURSIVE Spaces(_)
Spaces(n) == IF n = 0 THEN "" ELSE " " \o Spaces(n - 1)
Pads == {Spaces(n) : n \in 0..MaxPad}
Padded(w) == {l \o w \o t : l, t \in Pads}

Casings ==
    [c \in {"NORTH CAROLINA COURAGE", "North Carolina Courage"} |-> "north carolina courage"] @@
    [c \in {"NC COURAGE", "Nc Courage"} |-> "nc courage"] @@
    [c \in {"COURAGE", "Courage"} |-> "courage"] @@
    [c \in {"CHICAGO RED STARS", "Chicago Red Stars"} |-> "chicago red stars"] @@
    [c \in {"RED STARS", "Red Stars"} |-> "red stars"] @@
    [c \in {"HOUSTON DASH", "Houston Dash"} |-> "houston dash"] @@
    [c \in {"DASH", "Dash"} |-> "dash"] @@
    [c \in {"ORLANDO PRIDE", "Orlando Pride"} |-> "orlando pride"] @@
    [c \in {"PRIDE", "Pride"} |-> "pride"] @@
    [c \in {"PORTLAND THORNS", "Portland Thorns"} |-> "portland thorns"] @@
    [c \in {"THORNS", "Thorns"} |-> "thorns"] @@
    [c \in {"WASHINGTON SPIRIT", "Washington Spirit"} |-> "washington spirit"] @@
    [c \in {"SPIRIT", "Spirit"} |-> "spirit"] @@
    [c \in {"GOTHAM FC", "Gotham FC", "Gotham Fc"} |-> "gotham fc"] @@
    [c \in {"GOTHAM", "Gotham"} |-> "gotham"] @@
    [c \in {"KANSAS CITY CURRENT", "Kansas City Current"} |-> "kansas city current"] @@
    [c \in {"CURRENT", "Current"} |-> "current"] @@
    [c \in {"SAN DIEGO WAVE", "San Diego Wave"} |-> "san diego wave"] @@
    [c \in {"WAVE", "Wave"} |-> "wave"] @@
    [c \in {"ANGEL CITY", "Angel City"} |-> "angel city"] @@
    [c \in {"RACING LOUISVILLE", "Racing Louisville"} |-> "racing louisville"] @@
    [c \in {"LOUISVILLE", "Louisville"} |-> "louisville"] @@
    [c \in {"SEATTLE REIGN", "Seattle Reign"} |-> "seattle reign"] @@
    [c \in {"REIGN", "Reign"} |-> "reign"] @@
    [c \in {"UTAH ROYALS", "Utah Royals"} |-> "utah royals"] @@
    [c \in {"ROYALS", "Royals"} |-> "royals"] @@
    [c \in {"BAY FC", "Bay FC", "Bay Fc"} |-> "bay fc"] @@
    [c \in {"SMITH", "Smith"} |-> "smith"] @@
    [c \in {"LYON", "Lyon"} |-> "lyon"]

LowerCase == {Casings[c] : c \in DOMAIN Casings}
Words == DOMAIN Casings \cup LowerCase \cup {"", "courage fc"}

Lowered == {<<l \o c \o t, l \o Casings[c] \o t>> : c \in DOMAIN Casings, l \in Pads, t \in Pads}
Stripped == {<<l \o w \o t, w>> : w \in Words, l \in Pads, t \in Pads}
LowerTable == [s \in {p[1] : p \in Lowered} |-> (CHOOSE p \in Lowered : p[1] = s)[2]]
StripTable == [s \in {p[1] : p \in Stripped} |-> (CHOOSE p \in Stripped : p[1] = s)[2]]

Lower(s) == IF s \in DOMAIN LowerTable THEN LowerTable[s] ELSE s
Strip(s) == IF s \in DOMAIN StripTable THEN StripTable[s] ELSE s

\* A query sent to the warehouse: the table and its season suffix, the
\* filters (like: compared with LIKE on lower case; orTeam: a second team
\* name joined with OR), LIMIT (-1: none), the
\* minutes and value thresholds (-1: none), the ORDER BY key, the SQL tokens
\* of a caller-supplied query, and the shape of the result ("rows", "group":
\* one row per team, "scalar": one aggregate row).
BaseQ == [table |-> "", suffix |-> "", season |-> "", player |-> "", team |-> "",
          orTeam |-> "", like |-> FALSE, limit |-> -1, minutes |-> -1, floor |-> -1, order |-> "",
          sql |-> <<>>, shape |-> "rows"]

FilterMatches(q) ==
    /\ q.season \in {"", KnownSeason}
    /\ IF q.like THEN /\ Lower(q.player) \in {"", "smith"}
                       /\ (Lower(q.team) \in {"", "courage"} \/ Lower(q.orTeam) = "courage")
                 ELSE q.player \in {"", "Smith"} /\ q.team \in {"", "Courage"}

Limited(q, n) == IF q.limit >= 0 THEN Min2(q.limit, n) ELSE n

\* client.query(sql).to_dataframe(): an error, or the number of rows of the
\* result; rows is the number of rows the table holds afterwards.
RunQuery(up, rows, q) ==
    IF ~up THEN [err |-> "ServiceUnavailable", n |-> 0, rows |-> rows]
    ELSE IF q.sql # <<>> THEN
        CASE Head(q.sql) = "SELECT" -> [err |-> "", n |-> rows, rows |-> rows]
          [] Head(q.sql) = "DELETE" -> [err |-> "", n |-> 0, rows |-> 0]
          [] OTHER -> [err |-> "BadRequest", n |-> 0, rows |-> rows]
    ELSE IF q.suffix \notin {"", KnownSeason} THEN [err |-> "NotFound", n |-> 0, rows |-> rows]
    ELSE IF q.shape = "scalar" THEN [err |-> "", n |-> 1, rows |-> rows]
    ELSE IF ~FilterMatches(q) THEN [err |-> "", n |-> 0, rows |-> rows]
    ELSE IF q.shape = "group" THEN [err |-> "", n |-> Limited(q, Min2(rows, 1)), rows |-> rows]
    ELSE [err |-> "", n |-> Limited(q, rows), rows |-> rows]

\* ------------------------------------------------------------ result texts
\* The text of a TextContent, kept as what it says: tag "required" (a required
\* parameter is missing), "unavailable", "failed" (an exception was caught),
\* "error", "nodata" (no rows found), "note", "report" (n rows rendered);
\* what: the handler's label; cause: the exception; mentions: the parameter
\* names the text spells out; parts: the texts it embeds.
Text(tag, what, cause, mentions, n, parts) ==
    [tag |-> tag, what |-> what, cause |-> cause, mentions |-> mentions, n |-> n, parts |-> parts]

Required(fields) == Text("required", "", "", fields, 0, <<>>)
SeasonRequired == Required({"season"})
Unavailable(what) == Text("unavailable", what, "", {}, 0, <<>>)
Failed(what, cause) == Text("failed", what, cause, {}, 0, <<>>)
MissingKey(what, key) == Text("failed", what, "KeyError", {key}, 0, <<>>)
NoData(what) == Text("nodata", what, "", {}, 0, <<>>)
Note(what) == Text("note", what, "", {}, 0, <<>>)
Report(what, n) == Text("report", what, "", {}, n, <<>>)

\* What a handler hands back: the exception it let escape (or ""), its
\* content, the queries it sent and the rows the warehouse holds afterwards.
Ret(texts, qs, rows) == [exc |-> "", content |-> texts, queries |-> qs, rows |-> rows]
Raise(cls, qs, rows) == [exc |-> cls, content |-> <<>>, queries |-> qs, rows |-> rows]

\* Tool arguments: a dict, or JSON null.
Dict(d) == [t |-> "dict", d |-> d]
IsDict(a) == a.t = "dict"

\* self.bigquery_client.query(q).to_dataframe() inside a handler's try block:
\* on a client that is None the attribute access fails before any query is sent.
TryQuery(client, up, rows, q) ==
    IF ~client THEN [err |-> "AttributeError", n |-> 0, rows |-> rows, sent |-> <<>>]
    ELSE RunQuery(up, rows, q) @@ [sent |-> <<q>>]

\* The same with a handler that answers an empty result with two blocks,
\* the bare header and a separate notice.
Format_two_blocks(r, what, emptyText) ==
    IF r.err # "" THEN Ret(<<Failed(what, r.err)>>, r.sent, r.rows)
    ELSE IF r.n = 0 THEN Ret(<<Report(what, 0), NoData(what)>>, r.sent, r.rows)
    ELSE Ret(<<Report(what, r.n)>>, r.sent, r.rows)

\* What a handler makes of the outcome r of its query: the text of its
\* except clause, or one line per row under a header (an empty result renders
\* the header alone) or, with emptyText, the no-data text.
Format(r, what, emptyText) ==
    IF r.err # "" THEN Ret(<<Failed(what, r.err)>>, r.sent, r.rows)
    ELSE IF emptyText /\ r.n = 0 THEN Ret(<<NoData(what)>>, r.sent, r.rows)
    ELSE Ret(<<Report(what, r.n)>>, r.sent, r.rows)

\* The same without the handler's except clause: the store's error escapes.
QueryAndFormat_uncaught(client, up, rows, q, what, emptyText) ==
    LET r == TryQuery(client, up, rows, q) IN
    IF r.err # "" THEN Raise(r.err, r.sent, r.rows)
    ELSE IF emptyText /\ r.n = 0 THEN Ret(<<NoData(what)>>, r.sent, r.rows)
    ELSE Ret(<<Report(what, r.n)>>, r.sent, r.rows)

\* Query, then format, inside the handler's try block.
QueryAndFormat(client, up, rows, q, what, emptyText) ==
    Format(TryQuery(client, up, rows, q), what, emptyText)

\* ------------------------------------- analytics_server.NWSLAnalyticsServer
team_mappings ==
    [k \in {"north carolina courage", "nc courage", "courage"} |-> "Courage"] @@
    [k \in {"chicago red stars", "red stars"} |-> "Red Stars"] @@
    [k \in {"houston dash", "dash"} |-> "Dash"] @@
    [k \in {"orlando pride", "pride"} |-> "Pride"] @@
    [k \in {"portland thorns", "thorns"} |-> "Thorns"] @@
    [k \in {"washington spirit", "spirit"} |-> "Spirit"] @@
    [k \in {"gotham fc", "gotham"} |-> "Gotham FC"] @@
    [k \in {"kansas city current", "current"} |-> "Current"] @@
    [k \in {"san diego wave", "wave"} |-> "Wave"] @@
    [k \in {"angel city"} |-> "Angel City"] @@
    [k \in {"racing louisville", "louisville"} |-> "Louisville"] @@
    [k \in {"seattle reign", "reign"} |-> "Reign"] @@
    [k \in {"utah royals", "royals"} |-> "Royals"] @@
    [k \in {"bay fc"} |-> "Bay FC"]

\* The same without .strip().
_normalize_team_name_no_strip(team_name) ==
    IF Falsy(team_name) THEN team_name
    ELSE Get(team_mappings, Lower(team_name), team_name)

_normalize_team_name(team_name) ==
    IF Falsy(team_name) THEN team_name
    ELSE Get(team_mappings, Strip(Lower(team_name)), team_name)

\* A filter value: the empty string when the argument is missing or falsy.
FilterOf(v) == IF Falsy(v) THEN "" ELSE v

\* The project-prefix rewrite of a caller-supplied query, over SQL tokens:
\* when no token is "<project_id>.", every "<dataset>." token is prefixed.
RECURSIVE PrefixTokens(_, _)
PrefixTokens(sql, dataset) ==
    IF sql = <<>> THEN <<>>
    ELSE (IF Head(sql) = dataset THEN <<"nwsl-data.", dataset>> ELSE <<Head(sql)>>)
         \o PrefixTokens(Tail(sql), dataset)

\* The token f"{dataset}." of a dataset name.
DatasetToken(dataset) == CASE dataset = "nwsl_fbref" -> "nwsl_fbref."
                           [] dataset = "nwsl_player_stats" -> "nwsl_player_stats."
                           [] OTHER -> dataset

\* The same without the test for the project id.
AddProjectPrefix_unguarded(sql, dataset) == PrefixTokens(sql, DatasetToken(dataset))

AddProjectPrefix(sql, dataset) ==
    IF \E i \in 1..Len(sql) : sql[i] = "nwsl-data." THEN sql
    ELSE PrefixTokens(sql, DatasetToken(dataset))

\* df.to_string(max_rows=50, ...): the number of rows it renders.
max_rows == 50
to_string(n) == Min2(n, max_rows)

\* The same with a rendering that truncates without saying so.
RawReport_silent(n) ==
    Text("report", "Query Results", "", {}, n, <<Text("rows", "", "", {}, to_string(n), <<>>)>>)

\* The text of the raw query: the header with len(df), the rendered rows
\* and, past 50 rows, the note with len(df).
RawReport(n) ==
    Text("report", "Query Results", "", {}, n,
         <<Text("rows", "", "", {}, to_string(n), <<>>)>> \o
         (IF n > 50 THEN <<Text("note", "showing first 50 of", "", {}, n, <<>>)>> ELSE <<>>))

A_handle_raw_query(srv, a, up, rows) ==
    IF ~srv.bigquery_client THEN Ret(<<Unavailable("BigQuery client")>>, <<>>, rows)
    ELSE IF ~IsDict(a) THEN Ret(<<Failed("Query", "TypeError")>>, <<>>, rows)
    ELSE IF "query" \notin DOMAIN a.d THEN Ret(<<MissingKey("Query", "query")>>, <<>>, rows)
    ELSE LET q == [BaseQ EXCEPT !.sql = AddProjectPrefix(a.d["query"], Get(a.d, "dataset", "nwsl_fbref"))]
             r == RunQuery(up, rows, q)
         IN IF r.err # "" THEN Ret(<<Failed("Query", r.err)>>, <<q>>, r.rows)
            ELSE Ret(<<RawReport(r.n)>>, <<q>>, r.rows)

\* The query a calculator method sends for one analysis type.
XgQuery(type, d) ==
    CASE type = "player_xg" ->
           [BaseQ EXCEPT !.table = type, !.season = d["season"],
                         !.player = FilterOf(Get(d, "player_name", None)),
                         !.team = FilterOf(_normalize_team_name(Get(d, "team", None)))]
      [] type = "overperformers" ->
           [BaseQ EXCEPT !.table = type, !.season = d["season"], !.minutes = Get(d, "min_minutes", 900)]
      [] type = "team_efficiency" ->
           [BaseQ EXCEPT !.table = type, !.season = d["season"], !.shape = "group"]
      [] OTHER -> [BaseQ EXCEPT !.table = type, !.season = d["season"], !.shape = "scalar"]

ShotQuery(type, d) ==
    CASE type = "player_profiles" ->
           [BaseQ EXCEPT !.table = type, !.season = d["season"], !.minutes = Get(d, "min_minutes", 450)]
      [] type = "quality_leaders" ->
           [BaseQ EXCEPT !.table = type, !.season = d["season"], !.floor = Get(d, "min_shots", 20)]
      [] type = "team_styles" ->
           [BaseQ EXCEPT !.table = type, !.season = d["season"], !.shape = "group"]
      [] OTHER -> [BaseQ EXCEPT !.table = type, !.season = d["season"], !.shape = "scalar"]

WarQuery(type, d) ==
    CASE type = "replacement_baselines" ->
           [BaseQ EXCEPT !.table = type, !.season = d["season"], !.minutes = Get(d, "min_minutes", 450),
                         !.shape = "scalar"]
      [] type = "player_war" ->
           [BaseQ EXCEPT !.table = type, !.season = d["season"], !.minutes = Get(d, "min_minutes", 450)]
      [] type = "team_construction" ->
           [BaseQ EXCEPT !.table = type, !.season = d["season"], !.shape = "group"]
      [] OTHER -> [BaseQ EXCEPT !.table = type, !.season = d["season"], !.floor = Get(d, "min_war", 5)]

\* The calculator method a research handler calls for an analysis type.
ResearchQuery(what, type, d) ==
    CASE what = "xG Analysis" -> XgQuery(type, d)
      [] what = "Shot Analysis" -> ShotQuery(type, d)
      [] OTHER -> WarQuery(type, d)

\* The common frame of the three research handlers: the calculator guard,
\* then, inside try, analysis_type, the season guard and the branch on the
\* analysis type; a type no branch takes leaves the result unbound.
ResearchHandler(calc, a, up, rows, what, types) ==
    IF calc = "unset" THEN Raise("AttributeError", <<>>, rows)
    ELSE IF calc = "None" THEN Ret(<<Unavailable(what)>>, <<>>, rows)
    ELSE IF ~IsDict(a) THEN Ret(<<Failed(what, "TypeError")>>, <<>>, rows)
    ELSE IF "analysis_type" \notin DOMAIN a.d THEN Ret(<<MissingKey(what, "analysis_type")>>, <<>>, rows)
    ELSE IF "season" \notin DOMAIN a.d THEN Ret(<<SeasonRequired>>, <<>>, rows)
    ELSE IF a.d["analysis_type"] \notin types THEN Ret(<<Failed(what, "UnboundLocalError")>>, <<>>, rows)
    ELSE QueryAndFormat(TRUE, up, rows, ResearchQuery(what, a.d["analysis_type"], a.d), what, FALSE)

A_handle_xg_analysis(srv, a, up, rows) ==
    ResearchHandler(srv.xg_calculator, a, up, rows, "xG Analysis", XgTypes)

A_handle_shot_analysis(srv, a, up, rows) ==
    ResearchHandler(srv.shot_profiler, a, up, rows, "Shot Analysis", ShotTypes)

A_handle_war_analysis(srv, a, up, rows) ==
    ResearchHandler(srv.war_estimator, a, up, rows, "WAR Analysis", WarTypes)

A_get_raw_data(srv, a, up, rows) == A_handle_raw_query(srv, a, up, rows)

AllYears == [BaseQ EXCEPT !.table = "player_stats_all_years"]

A_get_player_stats(srv, a, up, rows) ==
    IF ~IsDict(a) THEN Ret(<<Failed("Player stats", "TypeError")>>, <<>>, rows)
    ELSE IF "season" \notin DOMAIN a.d THEN Ret(<<SeasonRequired>>, <<>>, rows)
    ELSE IF ~IsInt(a.d["season"]) THEN Ret(<<Failed("Player stats", "ValueError")>>, <<>>, rows)
    ELSE QueryAndFormat(srv.bigquery_client, up, rows,
            [AllYears EXCEPT !.season = a.d["season"],
                             !.player = Lower(FilterOf(Get(a.d, "player_name", None))),
                             !.like = TRUE,
                             !.team = FilterOf(_normalize_team_name(Get(a.d, "team_name", None))),
                             !.limit = Get(a.d, "limit", 20), !.order = "goals"],
            "Player stats", FALSE)

A_get_team_stats(srv, a, up, rows) ==
    IF ~IsDict(a) THEN Ret(<<Failed("Team stats", "TypeError")>>, <<>>, rows)
    ELSE IF "season" \notin DOMAIN a.d THEN Ret(<<SeasonRequired>>, <<>>, rows)
    ELSE IF ~IsInt(a.d["season"]) THEN Ret(<<Failed("Team stats", "ValueError")>>, <<>>, rows)
    ELSE QueryAndFormat(srv.bigquery_client, up, rows,
            [AllYears EXCEPT !.season = a.d["season"],
                             !.team = FilterOf(_normalize_team_name(Get(a.d, "team_name", None))),
                             !.order = "total_goals", !.shape = "group"],
            "Team stats", FALSE)

A_get_standings(srv, a, up, rows) ==
    IF ~IsDict(a) THEN Ret(<<Failed("Standings", "TypeError")>>, <<>>, rows)
    ELSE IF "season" \notin DOMAIN a.d THEN Ret(<<SeasonRequired>>, <<>>, rows)
    ELSE IF ~IsInt(a.d["season"]) THEN Ret(<<Failed("Standings", "ValueError")>>, <<>>, rows)
    ELSE QueryAndFormat(srv.bigquery_client, up, rows,
            [AllYears EXCEPT !.season = a.d["season"], !.order = "goals_for", !.shape = "group"],
            "Standings", FALSE)

A_get_match_results(srv, a, up, rows) ==
    IF ~IsDict(a) THEN Ret(<<Failed("Match results", "TypeError")>>, <<>>, rows)
    ELSE IF "season" \notin DOMAIN a.d THEN Ret(<<SeasonRequired>>, <<>>, rows)
    ELSE Ret(<<Note("Match Results")>>, <<>>, rows)

\* Outside any try block: the membership test on null arguments escapes.
A_analyze_player_performance(srv, a, up, rows) ==
    IF ~IsDict(a) THEN Raise("TypeError", <<>>, rows)
    ELSE IF "season" \notin DOMAIN a.d THEN Ret(<<SeasonRequired>>, <<>>, rows)
    ELSE A_get_player_stats(srv,
            Dict([season |-> a.d["season"], player_name |-> Get(a.d, "player_name", None), limit |-> 1]),
            up, rows)

A_analyze_team_performance(srv, a, up, rows) ==
    IF ~IsDict(a) THEN Raise("TypeError", <<>>, rows)
    ELSE IF "season" \notin DOMAIN a.d THEN Ret(<<SeasonRequired>>, <<>>, rows)
    ELSE A_get_team_stats(srv,
            Dict([season |-> a.d["season"], team_name |-> Get(a.d, "team_name", None)]), up, rows)

A_find_correlations(srv, a, up, rows) ==
    IF ~IsDict(a) THEN Ret(<<Failed("Correlation analysis", "TypeError")>>, <<>>, rows)
    ELSE IF "season" \notin DOMAIN a.d THEN Ret(<<SeasonRequired>>, <<>>, rows)
    ELSE IF ~IsInt(a.d["season"]) THEN Ret(<<Failed("Correlation analysis", "ValueError")>>, <<>>, rows)
    ELSE QueryAndFormat(srv.bigquery_client, up, rows,
            [AllYears EXCEPT !.season = a.d["season"], !.minutes = 450, !.shape = "scalar"],
            "Correlation analysis", FALSE)

A_compare_teams(srv, a, up, rows) ==
    IF ~IsDict(a) THEN Raise("TypeError", <<>>, rows)
    ELSE IF "season" \notin DOMAIN a.d THEN Ret(<<SeasonRequired>>, <<>>, rows)
    ELSE LET t1 == A_get_team_stats(srv,
                      Dict([season |-> a.d["season"], team_name |-> Get(a.d, "team1", None)]), up, rows)
             t2 == A_get_team_stats(srv,
                      Dict([season |-> a.d["season"], team_name |-> Get(a.d, "team2", None)]), up, t1.rows)
         IN Ret(<<Text("report", "Team Comparison", "", {}, 2, <<t1.content[1], t2.content[1]>>)>>,
                t1.queries \o t2.queries, t2.rows)

A_get_nwsl_players(srv, a, up, rows) ==
    IF ~IsDict(a) THEN Ret(<<Failed("Player roster", "AttributeError")>>, <<>>, rows)
    ELSE QueryAndFormat(srv.bigquery_client, up, rows,
            [AllYears EXCEPT !.player = Lower(FilterOf(Get(a.d, "player_name", None))),
                             !.like = TRUE,
                             !.team = FilterOf(_normalize_team_name(Get(a.d, "team_name", None))),
                             !.limit = Get(a.d, "limit", 50), !.order = "player_name"],
            "Player roster", FALSE)

A_get_nwsl_teams(srv, a, up, rows) ==
    QueryAndFormat(srv.bigquery_client, up, rows,
            [AllYears EXCEPT !.order = "team", !.shape = "group"], "Team info", FALSE)

A_get_nwsl_games(srv, a, up, rows) ==
    IF ~IsDict(a) THEN Ret(<<Failed("Games data", "TypeError")>>, <<>>, rows)
    ELSE IF "season" \notin DOMAIN a.d THEN Ret(<<SeasonRequired>>, <<>>, rows)
    ELSE Ret(<<Note("NWSL Games")>>, <<>>, rows)

sort_mapping == [total_contributions |-> "(PERF_Gls + PERF_Ast)", goals |-> "PERF_Gls",
                 assists |-> "PERF_Ast", expected_goals |-> "EXP_xG", minutes_played |-> "PT_Min"]

A_get_team_roster(srv, a, up, rows) ==
    IF ~IsDict(a) THEN Ret(<<Failed("Team roster analysis", "TypeError")>>, <<>>, rows)
    ELSE IF "season" \notin DOMAIN a.d THEN Ret(<<SeasonRequired>>, <<>>, rows)
    ELSE IF "team" \notin DOMAIN a.d THEN Ret(<<Required({"team"})>>, <<>>, rows)
    ELSE IF ~IsInt(a.d["season"]) THEN Ret(<<Failed("Team roster analysis", "ValueError")>>, <<>>, rows)
    ELSE QueryAndFormat(srv.bigquery_client, up, rows,
            [AllYears EXCEPT !.season = a.d["season"], !.team = _normalize_team_name(a.d["team"]),
                             !.minutes = Get(a.d, "min_minutes", 200),
                             !.order = Get(sort_mapping, Get(a.d, "sort_by", "total_contributions"),
                                           "(PERF_Gls + PERF_Ast)")],
            "Team roster analysis", TRUE)

A_roster_intelligence(srv, a, up, rows) ==
    IF ~IsDict(a) THEN Ret(<<Failed("Roster intelligence analysis", "TypeError")>>, <<>>, rows)
    ELSE IF ~({"season", "team", "analysis_type"} \subseteq DOMAIN a.d)
         THEN Ret(<<Required({"season", "team", "analysis_type"})>>, <<>>, rows)
    ELSE IF a.d["analysis_type"] \notin {"current_form", "best_xi", "underperformers"}
         THEN Ret(<<Failed("Roster intelligence analysis", "UnboundLocalError")>>, <<>>, rows)
    ELSE IF ~IsInt(a.d["season"]) THEN Ret(<<Failed("Roster intelligence analysis", "ValueError")>>, <<>>, rows)
    ELSE QueryAndFormat(srv.bigquery_client, up, rows,
            [AllYears EXCEPT !.season = a.d["season"], !.team = _normalize_team_name(a.d["team"]),
                             !.minutes = CASE a.d["analysis_type"] = "best_xi" -> 180
                                           [] a.d["analysis_type"] = "underperformers" -> 300
                                           [] OTHER -> -1,
                             !.order = a.d["analysis_type"]],
            "Roster intelligence analysis", FALSE)

\* The roster is scraped from a web page, never read from the warehouse;
\* web is what the scrape met.
WebOutcomes == {"fetch_error", "no_table", "no_players", "ok"}

A_ingest_current_roster(srv, a, up, rows, web) ==
    IF ~IsDict(a) THEN Ret(<<Failed("Roster ingestion", "TypeError")>>, <<>>, rows)
    ELSE IF ~({"team", "fbref_url"} \subseteq DOMAIN a.d)
         THEN Ret(<<Required({"team", "fbref_url"})>>, <<>>, rows)
    ELSE IF web = "ok" THEN Ret(<<Report("Current Roster", 1)>>, <<>>, rows)
    ELSE Ret(<<Text("error", web, "", {}, 0, <<>>)>>, <<>>, rows)

\* ------------------------------------------------ server.NWSLAnalyticsServer
\* Every handler of the basic server reads its arguments with args.get
\* before its try block, and splices the season into the table name.
B_get_raw_data(srv, a, up, rows) ==
    IF ~IsDict(a) THEN Raise("AttributeError", <<>>, rows)
    ELSE LET data_type == Get(a.d, "data_type", None)
             season == Get(a.d, "season", None)
         IN IF Falsy(data_type) \/ Falsy(season) THEN Ret(<<Required({"data_type", "season"})>>, <<>>, rows)
            ELSE IF data_type \notin DataTypes
                 THEN Ret(<<Text("error", "Unknown data_type", "", {"data_type"}, 0, <<>>)>>, <<>>, rows)
            ELSE QueryAndFormat(srv.bigquery_client, up, rows,
                    [BaseQ EXCEPT !.table = data_type,
                                  !.suffix = IF data_type = "team_info" THEN "" ELSE season,
                                  !.team = FilterOf(Get(a.d, "team_id", None)),
                                  !.limit = Get(a.d, "limit", 50)],
                    "raw data", TRUE)

B_get_player_stats(srv, a, up, rows) ==
    IF ~IsDict(a) THEN Raise("AttributeError", <<>>, rows)
    ELSE QueryAndFormat(srv.bigquery_client, up, rows,
            [BaseQ EXCEPT !.table = "nwsl_player_season_stats",
                          !.suffix = StrOf(Get(a.d, "season", None)),
                          !.player = FilterOf(Get(a.d, "player_name", None)),
                          !.team = FilterOf(Get(a.d, "team_name", None)),
                          !.like = TRUE, !.limit = Get(a.d, "limit", 20), !.order = "goals"],
            "player statistics", TRUE)

B_get_team_stats(srv, a, up, rows) ==
    IF ~IsDict(a) THEN Raise("AttributeError", <<>>, rows)
    ELSE QueryAndFormat(srv.bigquery_client, up, rows,
            [BaseQ EXCEPT !.table = "nwsl_team_season_stats",
                          !.suffix = StrOf(Get(a.d, "season", None)),
                          !.team = FilterOf(Get(a.d, "team_name", None)),
                          !.like = TRUE, !.order = "points"],
            "team statistics", TRUE)

B_get_standings(srv, a, up, rows) ==
    IF ~IsDict(a) THEN Raise("AttributeError", <<>>, rows)
    ELSE QueryAndFormat(srv.bigquery_client, up, rows,
            [BaseQ EXCEPT !.table = "nwsl_team_season_stats",
                          !.suffix = StrOf(Get(a.d, "season", None)), !.order = "points"],
            "standings", TRUE)

\* _get_team_id_from_name swallows every failure of its own query.
B_get_match_results(srv, a, up, rows) ==
    IF ~IsDict(a) THEN Raise("AttributeError", <<>>, rows)
    ELSE LET team_name == Get(a.d, "team_name", None)
             idq == [BaseQ EXCEPT !.table = "nwsl_teams_all", !.team = StrOf(team_name),
                                  !.like = TRUE, !.limit = 1]
             idr == TryQuery(srv.bigquery_client, up, rows, idq)
             found == ~Falsy(team_name) /\ idr.err = "" /\ idr.n > 0
             main == QueryAndFormat(srv.bigquery_client, up, rows,
                        [BaseQ EXCEPT !.table = "nwsl_games",
                                      !.suffix = StrOf(Get(a.d, "season", None)),
                                      !.team = IF found THEN "Courage" ELSE "",
                                      !.limit = Get(a.d, "limit", 10), !.order = "date_time_utc"],
                        "match results", TRUE)
         IN IF Falsy(team_name) THEN main
            ELSE Ret(main.content, idr.sent \o main.queries, main.rows)

B_analyze_player_performance(srv, a, up, rows) ==
    IF ~IsDict(a) THEN Raise("AttributeError", <<>>, rows)
    ELSE QueryAndFormat(srv.bigquery_client, up, rows,
            [BaseQ EXCEPT !.table = "nwsl_player_season_stats",
                          !.suffix = StrOf(Get(a.d, "season", None)),
                          !.player = StrOf(Get(a.d, "player_name", None)),
                          !.like = TRUE, !.limit = 1, !.order = "goals"],
            "player performance", TRUE)

B_analyze_team_performance(srv, a, up, rows) ==
    IF ~IsDict(a) THEN Raise("AttributeError", <<>>, rows)
    ELSE QueryAndFormat(srv.bigquery_client, up, rows,
            [BaseQ EXCEPT !.table = "nwsl_team_season_stats",
                          !.suffix = StrOf(Get(a.d, "season", None)),
                          !.team = StrOf(Get(a.d, "team_name", None)),
                          !.like = TRUE, !.limit = 1],
            "team performance", TRUE)

B_find_correlations(srv, a, up, rows) ==
    IF ~IsDict(a) THEN Raise("AttributeError", <<>>, rows)
    ELSE LET analysis_type == Get(a.d, "analysis_type", None)
             season == StrOf(Get(a.d, "season", None))
         IN CASE analysis_type = "team_performance" ->
                   QueryAndFormat(srv.bigquery_client, up, rows,
                      [BaseQ EXCEPT !.table = "nwsl_team_season_stats", !.suffix = season,
                                    !.order = "points"], "correlations", FALSE)
              [] analysis_type = "attendance_impact" ->
                   QueryAndFormat(srv.bigquery_client, up, rows,
                      [BaseQ EXCEPT !.table = "nwsl_games", !.suffix = season, !.shape = "group"],
                      "correlations", FALSE)
              [] OTHER -> Ret(<<Note("not yet implemented")>>, <<>>, rows)

B_compare_teams(srv, a, up, rows) ==
    IF ~IsDict(a) THEN Raise("AttributeError", <<>>, rows)
    ELSE LET q == [BaseQ EXCEPT !.table = "nwsl_team_season_stats",
                                !.suffix = StrOf(Get(a.d, "season", None)),
                                !.team = StrOf(Get(a.d, "team1_name", None)),
                                !.orTeam = StrOf(Get(a.d, "team2_name", None)),
                                !.like = TRUE, !.order = "points"]
             r == TryQuery(srv.bigquery_client, up, rows, q)
         IN IF r.err # "" THEN Ret(<<Failed("comparing teams", r.err)>>, r.sent, r.rows)
            ELSE IF r.n < 2 THEN Ret(<<NoData("comparing teams")>>, r.sent, r.rows)
            ELSE Ret(<<Report("Team Comparison", 2)>>, r.sent, r.rows)

\* ---------------------------------------------------------- http_server_v2
\* The methods each server class defines for the names tools/call routes.
AnalyticsMethods == Names(ResearchTools) \cup Names(BasicTools)
BasicMethods == {"get_raw_data", "get_player_stats", "get_team_stats", "get_standings",
                 "get_match_results", "analyze_player_performance", "analyze_team_performance",
                 "find_correlations", "compare_teams"}
MethodsOf(type) == IF type = "analytics" THEN AnalyticsMethods ELSE BasicMethods

\* The names the if/elif chain of handle_tools_call knows.
DispatchNames ==
    {"expected_goals_analysis", "shot_quality_analysis", "replacement_value_analysis",
     "query_raw_data", "get_team_roster", "roster_intelligence", "ingest_current_roster",
     "get_raw_data", "get_player_stats", "get_team_stats", "get_standings", "get_match_results",
     "analyze_player_performance", "analyze_team_performance", "find_correlations",
     "compare_teams", "get_nwsl_players", "get_nwsl_teams", "get_nwsl_games"}

AnalyticsCall(name, srv, a, up, rows, web) ==
    CASE name = "expected_goals_analysis" -> A_handle_xg_analysis(srv, a, up, rows)
      [] name = "shot_quality_analysis" -> A_handle_shot_analysis(srv, a, up, rows)
      [] name = "replacement_value_analysis" -> A_handle_war_analysis(srv, a, up, rows)
      [] name = "query_raw_data" -> A_handle_raw_query(srv, a, up, rows)
      [] name = "get_team_roster" -> A_get_team_roster(srv, a, up, rows)
      [] name = "roster_intelligence" -> A_roster_intelligence(srv, a, up, rows)
      [] name = "ingest_current_roster" -> A_ingest_current_roster(srv, a, up, rows, web)
      [] name = "get_raw_data" -> A_get_raw_data(srv, a, up, rows)
      [] name = "get_player_stats" -> A_get_player_stats(srv, a, up, rows)
      [] name = "get_team_stats" -> A_get_team_stats(srv, a, up, rows)
      [] name = "get_standings" -> A_get_standings(srv, a, up, rows)
      [] name = "get_match_results" -> A_get_match_results(srv, a, up, rows)
      [] name = "analyze_player_performance" -> A_analyze_player_performance(srv, a, up, rows)
      [] name = "analyze_team_performance" -> A_analyze_team_performance(srv, a, up, rows)
      [] name = "find_correlations" -> A_find_correlations(srv, a, up, rows)
      [] name = "compare_teams" -> A_compare_teams(srv, a, up, rows)
      [] name = "get_nwsl_players" -> A_get_nwsl_players(srv, a, up, rows)
      [] name = "get_nwsl_teams" -> A_get_nwsl_teams(srv, a, up, rows)
      [] OTHER -> A_get_nwsl_games(srv, a, up, rows)

BasicCall(name, srv, a, up, rows) ==
    CASE name = "get_raw_data" -> B_get_raw_data(srv, a, up, rows)
      [] name = "get_player_stats" -> B_get_player_stats(srv, a, up, rows)
      [] name = "get_team_stats" -> B_get_team_stats(srv, a, up, rows)
      [] name = "get_standings" -> B_get_standings(srv, a, up, rows)
      [] name = "get_match_results" -> B_get_match_results(srv, a, up, rows)
      [] name = "analyze_player_performance" -> B_analyze_player_performance(srv, a, up, rows)
      [] name = "analyze_team_performance" -> B_analyze_team_performance(srv, a, up, rows)
      [] name = "find_correlations" -> B_find_correlations(srv, a, up, rows)
      [] OTHER -> B_compare_teams(srv, a, up, rows)

\* What a method handler hands to the endpoint: the exception it raised (or
\* NoExc), its result, the tool handler reached, the queries sent and the
\* rows the warehouse holds afterwards.
NoExc == [cls |-> "", msg |-> ""]
Exc(cls, msg) == [cls |-> cls, msg |-> msg]
Done(result, handler, qs, rows) ==
    [exc |-> NoExc, result |-> result, handler |-> handler, queries |-> qs, rows |-> rows]
Throw(cls, msg, handler, qs, rows) ==
    [exc |-> Exc(cls, msg), result |-> EmptyDict, handler |-> handler, queries |-> qs, rows |-> rows]

handle_initialize(params, rows) ==
    IF ~IsDict(params) THEN Throw("AttributeError", "runtime", "", <<>>, rows)
    ELSE Done([protocolVersion |-> MCP_PROTOCOL_VERSION,
               serverInfo |-> [name |-> "nwsl-analytics", version |-> "1.0.0"],
               capabilities |-> [tools |-> EmptyDict, resources |-> EmptyDict, prompts |-> EmptyDict]],
              "", <<>>, rows)

\* The same with a catalog that follows the reachability of the store.
handle_tools_list_probing(type, srv) ==
    IF type = "analytics" /\ srv # NoServer /\ srv.xg_calculator = "obj" /\ storeUp
    THEN [tools |-> ResearchTools]
    ELSE [tools |-> BasicTools]

handle_tools_list(type, srv) ==
    IF type = "analytics" /\ srv # NoServer /\ srv.xg_calculator = "obj"
    THEN [tools |-> ResearchTools]
    ELSE [tools |-> BasicTools]

\* The tail of handle_tools_call: the exception the handler let escape goes
\* on to the endpoint, its texts become the content of the result.
handle_tools_call_content(tool_name, r) ==
    IF r.exc # "" THEN Throw(r.exc, "runtime", tool_name, r.queries, r.rows)
    ELSE Done([content |-> [i \in 1..Len(r.content) |-> [type |-> "text", text |-> r.content[i]]]],
              tool_name, r.queries, r.rows)

\* The same with a dispatch whose final branch serves a name it does not
\* know with the last handler of the chain.
handle_tools_call_fallthrough(params, type, srv, up, rows, web) ==
    IF ~IsDict(params) THEN Throw("AttributeError", "runtime", "", <<>>, rows)
    ELSE LET given == Get(params.d, "name", None)
             tool_name == IF given \in DispatchNames \/ Falsy(given) THEN given ELSE "get_nwsl_games"
             tool_args == Get(params.d, "arguments", Dict(EmptyDict))
         IN IF Falsy(tool_name) THEN Throw("TypeError", "Missing required parameter: name", "", <<>>, rows)
            ELSE IF tool_name \notin MethodsOf(type) THEN Throw("AttributeError", "runtime", "", <<>>, rows)
            ELSE LET r == IF type = "analytics"
                          THEN AnalyticsCall(tool_name, srv, tool_args, up, rows, web)
                          ELSE BasicCall(tool_name, srv, tool_args, up, rows)
                 IN IF r.exc # "" THEN Throw(r.exc, "runtime", tool_name, r.queries, r.rows)
                    ELSE Done([content |-> [i \in 1..Len(r.content) |->
                                              [type |-> "text", text |-> r.content[i]]]],
                              tool_name, r.queries, r.rows)

handle_tools_call(params, type, srv, up, rows, web) ==
    IF ~IsDict(params) THEN Throw("AttributeError", "runtime", "", <<>>, rows)
    ELSE LET tool_name == Get(params.d, "name", None)
             tool_args == Get(params.d, "arguments", Dict(EmptyDict))
         IN IF Falsy(tool_name) THEN Throw("TypeError", "Missing required parameter: name", "", <<>>, rows)
            ELSE IF tool_name \notin DispatchNames THEN Throw("ValueError", "Unknown tool", "", <<>>, rows)
            ELSE IF tool_name \notin MethodsOf(type) THEN Throw("AttributeError", "runtime", "", <<>>, rows)
            ELSE handle_tools_call_content(tool_name,
                    IF type = "analytics"
                    THEN AnalyticsCall(tool_name, srv, tool_args, up, rows, web)
                    ELSE BasicCall(tool_name, srv, tool_args, up, rows))

ResourceUris == <<"nwsl://seasons", "nwsl://teams/2024", "nwsl://stats/summary/2024", "nwsl://standings/2024">>

handle_resources_list ==
    [resources |-> [i \in 1..Len(ResourceUris) |-> [uri |-> ResourceUris[i], mimeType |-> "text/plain"]]]

Contents(uri, text) == [contents |-> <<[uri |-> uri, mimeType |-> "text/plain", text |-> text]>>]

\* The same with the final "else" answering with a text, the way the first
\* HTTP wrapper does, instead of raising ValueError.
handle_resources_read_unknown_as_text(params, srv, up, rows) ==
    IF ~IsDict(params) THEN Throw("AttributeError", "runtime", "", <<>>, rows)
    ELSE LET uri == Get(params.d, "uri", None)
             q == [BaseQ EXCEPT !.table = "nwsl_team_season_stats", !.suffix = "2024",
                                !.limit = IF uri = "nwsl://teams/2024" THEN -1 ELSE 5]
             r == TryQuery(srv.bigquery_client, up, rows, q)
         IN IF Falsy(uri) THEN Throw("TypeError", "Missing required parameter: uri", "", <<>>, rows)
            ELSE IF uri \in {"nwsl://seasons", "nwsl://standings/2024"}
                 THEN Done(Contents(uri, Note(uri)), "", <<>>, rows)
            ELSE IF uri \in {"nwsl://teams/2024", "nwsl://stats/summary/2024"}
                 THEN Done(Contents(uri, IF r.err # "" THEN Failed(uri, r.err) ELSE Report(uri, r.n)),
                           "", r.sent, r.rows)
            ELSE Done(Contents(uri, Note("Resource not found")), "", <<>>, rows)

handle_resources_read(params, srv, up, rows) ==
    IF ~IsDict(params) THEN Throw("AttributeError", "runtime", "", <<>>, rows)
    ELSE LET uri == Get(params.d, "uri", None)
             q == [BaseQ EXCEPT !.table = "nwsl_team_season_stats", !.suffix = "2024",
                                !.limit = IF uri = "nwsl://teams/2024" THEN -1 ELSE 5]
             r == TryQuery(srv.bigquery_client, up, rows, q)
         IN IF Falsy(uri) THEN Throw("TypeError", "Missing required parameter: uri", "", <<>>, rows)
            ELSE IF uri \in {"nwsl://seasons", "nwsl://standings/2024"}
                 THEN Done(Contents(uri, Note(uri)), "", <<>>, rows)
            ELSE IF uri \in {"nwsl://teams/2024", "nwsl://stats/summary/2024"}
                 THEN Done(Contents(uri, IF r.err # "" THEN Failed(uri, r.err) ELSE Report(uri, r.n)),
                           "", r.sent, r.rows)
            ELSE Throw("ValueError", "Resource not found", "", <<>>, rows)

PromptNames == <<"analyze-team-performance", "compare-teams", "season-recap">>

handle_prompts_list == [prompts |-> [i \in 1..Len(PromptNames) |-> [name |-> PromptNames[i]]]]

handle_prompts_get(params, rows) ==
    IF ~IsDict(params) THEN Throw("AttributeError", "runtime", "", <<>>, rows)
    ELSE LET name == Get(params.d, "name", None)
             arguments == Get(params.d, "arguments", Dict(EmptyDict))
         IN IF Falsy(name) THEN Throw("TypeError", "Missing required parameter: name", "", <<>>, rows)
            ELSE IF name \notin Names(handle_prompts_list.prompts)
                 THEN Throw("ValueError", "Unknown prompt", "", <<>>, rows)
            ELSE IF ~IsDict(arguments) THEN Throw("AttributeError", "runtime", "", <<>>, rows)
            ELSE Done([description |-> name,
                       messages |-> <<[role |-> "user",
                                       content |-> [type |-> "text",
                                                    text |-> Get(arguments.d, "season", "2024")]]>>],
                      "", <<>>, rows)

handle_method(method, params, type, srv, up, rows, web) ==
    CASE method = "initialize" -> handle_initialize(params, rows)
      [] method = "tools/list" -> Done(handle_tools_list(type, srv), "", <<>>, rows)
      [] method = "tools/call" -> handle_tools_call(params, type, srv, up, rows, web)
      [] method = "resources/list" -> Done(handle_resources_list, "", <<>>, rows)
      [] method = "resources/read" -> handle_resources_read(params, srv, up, rows)
      [] method = "prompts/list" -> Done(handle_prompts_list, "", <<>>, rows)
      [] method = "prompts/get" -> handle_prompts_get(params, rows)
      [] OTHER -> Throw("ValueError", "Method not found", "", <<>>, rows)

\* The same with the id left out of the envelope's making: it is always null.
create_error_response_null_id(id, code, message, data) ==
    [jsonrpc |-> "2.0", id |-> JNull,
     error |-> IF data # None THEN [code |-> code, message |-> message, data |-> data]
               ELSE [code |-> code, message |-> message]]

create_error_response(id, code, message, data) ==
    [jsonrpc |-> "2.0", id |-> id,
     error |-> IF data # None THEN [code |-> code, message |-> message, data |-> data]
               ELSE [code |-> code, message |-> message]]

create_success_response(id, result) == [jsonrpc |-> "2.0", id |-> id, result |-> result]

JSONResponse(content) == [kind |-> "json", status |-> 200, body |-> content]
HTTPException(status) == [kind |-> "http_error", status |-> status, body |-> EmptyDict]

\* GET /: the static document about the server.
root == [name |-> "NWSL Analytics MCP Server", version |-> "1.0.0", mcp_endpoint |-> "/mcp",
         capabilities |-> <<"tools", "resources", "prompts">>]

\* What serving one POST /mcp leaves behind.
Served(resp, handler, qs, rows) ==
    [response |-> resp, handler |-> handler, queries |-> qs, rows |-> rows]

\* The data-backed resources of the first HTTP wrapper: a failed query
\* leaves through the except clause of the read.
legacy_read_query(uri, request_id, r) ==
    Served(IF r.err # ""
           THEN JSONResponse(create_error_response(request_id, INTERNAL_ERROR, "Error reading resource", None))
           ELSE JSONResponse(create_success_response(request_id, Contents(uri, Report(uri, r.n)))),
           "", r.sent, r.rows)

\* http_server.mcp_endpoint, the resources/read branch of the first HTTP
\* wrapper: one try block around the whole read, an unknown uri answered
\* with a text.
legacy_resources_read(uri, request_id, srv, up, rows) ==
    IF srv = NoServer THEN Served(HTTPException(503), "", <<>>, rows)
    ELSE IF Falsy(uri)
         THEN Served(JSONResponse(create_error_response(request_id, INVALID_PARAMS, "Missing uri parameter", None)),
                     "", <<>>, rows)
    ELSE IF uri \in {"nwsl://seasons", "nwsl://standings/2024"}
         THEN Served(JSONResponse(create_success_response(request_id, Contents(uri, Note(uri)))), "", <<>>, rows)
    ELSE IF uri \in {"nwsl://teams/2024", "nwsl://stats/summary/2024"}
         THEN legacy_read_query(uri, request_id,
                                TryQuery(srv.bigquery_client, up, rows,
                                         [BaseQ EXCEPT !.table = "nwsl_team_season_stats", !.suffix = "2024",
                                                       !.limit = IF uri = "nwsl://teams/2024" THEN -1 ELSE 5]))
    ELSE Served(JSONResponse(create_success_response(request_id, Contents(uri, Text("error", "Resource not found", "", {}, 0, <<>>)))),
                "", <<>>, rows)

\* The same without the outer "except Exception": an exception that is
\* neither ValueError nor TypeError leaves the endpoint as a server error.
mcp_endpoint_except_no_outer(json_data, request_id, h) ==
    Served(CASE h.exc.cls = "" -> JSONResponse(create_success_response(request_id, h.result))
             [] h.exc.cls = "ValueError" ->
                  JSONResponse(create_error_response(request_id, METHOD_NOT_FOUND, h.exc.msg, None))
             [] h.exc.cls = "TypeError" ->
                  JSONResponse(create_error_response(request_id, INVALID_PARAMS, h.exc.msg, None))
             [] OTHER -> HTTPException(500),
           h.handler, h.queries, h.rows)

\* The endpoint's return and except clauses around handle_method: the
\* response for what the method handler h returned or raised.
mcp_endpoint_except(json_data, request_id, h) ==
    Served(JSONResponse(
             CASE h.exc.cls = "" -> create_success_response(request_id, h.result)
               [] h.exc.cls = "ValueError" ->
                    create_error_response(request_id, METHOD_NOT_FOUND, h.exc.msg, None)
               [] h.exc.cls = "TypeError" ->
                    create_error_response(request_id, INVALID_PARAMS, h.exc.msg, None)
               [] OTHER ->
                    create_error_response(Get(json_data, "id", JNull), INTERNAL_ERROR,
                                          "Internal error", h.exc.msg)),
           h.handler, h.queries, h.rows)

\* The same without the check of the jsonrpc version.
mcp_endpoint_no_version_check(body, type, srv, up, rows, web) ==
    IF srv = NoServer THEN Served(HTTPException(503), "", <<>>, rows)
    ELSE IF body.kind = "unparsable"
         THEN Served(JSONResponse(create_error_response(JNull, PARSE_ERROR, "Parse error", "JSONDecodeError")),
                     "", <<>>, rows)
    ELSE IF body.kind # "object"
         THEN Served(JSONResponse(create_error_response(JNull, INVALID_REQUEST, "Request must be an object", None)),
                     "", <<>>, rows)
    ELSE LET json_data == body.d
             method == Get(json_data, "method", None)
             params == Get(json_data, "params", Dict(EmptyDict))
             request_id == Get(json_data, "id", JNull)
         IN IF Falsy(method)
            THEN Served(JSONResponse(create_error_response(request_id, INVALID_REQUEST,
                                                           "Method is required", None)), "", <<>>, rows)
            ELSE mcp_endpoint_except(json_data, request_id,
                                     handle_method(method, params, type, srv, up, rows, web))

\* The same without the check of the server object: a server that was
\* never constructed is served like one that holds no client.
mcp_endpoint_no_ready_check(body, type, srv, up, rows, web) ==
    IF body.kind = "unparsable"
    THEN Served(JSONResponse(create_error_response(JNull, PARSE_ERROR, "Parse error", "JSONDecodeError")),
                "", <<>>, rows)
    ELSE IF body.kind # "object"
         THEN Served(JSONResponse(create_error_response(JNull, INVALID_REQUEST, "Request must be an object", None)),
                     "", <<>>, rows)
    ELSE LET json_data == body.d
             jsonrpc == Get(json_data, "jsonrpc", "2.0")
             method == Get(json_data, "method", None)
             params == Get(json_data, "params", Dict(EmptyDict))
             request_id == Get(json_data, "id", JNull)
         IN IF jsonrpc # "2.0"
            THEN Served(JSONResponse(create_error_response(request_id, INVALID_REQUEST,
                                                           "Invalid JSON-RPC version", None)), "", <<>>, rows)
            ELSE IF Falsy(method)
            THEN Served(JSONResponse(create_error_response(request_id, INVALID_REQUEST,
                                                           "Method is required", None)), "", <<>>, rows)
            ELSE mcp_endpoint_except(json_data, request_id,
                    handle_method(method, params, type,
                                  IF srv = NoServer THEN ServerObject(FALSE, "None") ELSE srv,
                                  up, rows, web))

mcp_endpoint(body, type, srv, up, rows, web) ==
    IF srv = NoServer THEN Served(HTTPException(503), "", <<>>, rows)
    ELSE IF body.kind = "unparsable"
         THEN Served(JSONResponse(create_error_response(JNull, PARSE_ERROR, "Parse error", "JSONDecodeError")),
                     "", <<>>, rows)
    ELSE IF body.kind # "object"
         THEN Served(JSONResponse(create_error_response(JNull, INVALID_REQUEST, "Request must be an object", None)),
                     "", <<>>, rows)
    ELSE LET json_data == body.d
             jsonrpc == Get(json_data, "jsonrpc", "2.0")
             method == Get(json_data, "method", None)
             params == Get(json_data, "params", Dict(EmptyDict))
             request_id == Get(json_data, "id", JNull)
         IN IF jsonrpc # "2.0"
            THEN Served(JSONResponse(create_error_response(request_id, INVALID_REQUEST,
                                                           "Invalid JSON-RPC version", None)), "", <<>>, rows)
            ELSE IF Falsy(method)
            THEN Served(JSONResponse(create_error_response(request_id, INVALID_REQUEST,
                                                           "Method is required", None)), "", <<>>, rows)
            ELSE mcp_endpoint_except(json_data, request_id,
                                     handle_method(method, params, type, srv, up, rows, web))

\* ------------------------------------------------------ the requests served
\* An optional key of a JSON object: Absent, or Some(value).
Absent == <<>>
Some(v) == <<v>>
Opt(S) == {Some(v) : v \in S} \cup {Absent}

\* The dict holding the keys of d that are not Absent.
Present(d) == [k \in {x \in DOMAIN d : Len(d[x]) = 1} |-> d[k][1]]

Object(jsonrpc, method, params, id) ==
    [kind |-> "object",
     d |-> Present([jsonrpc |-> jsonrpc, method |-> method, params |-> params, id |-> id])]

Ids == {JNull, JStr("req-1"), JNum(7)}

\* Arguments: with and without the season, joined with each of ArgParts, and
\* seasons that are off the pattern ("1999") or no number ("20x4").
SeasonParts == {EmptyDict, [season |-> "2024"]}
OddSeasons == {[season |-> "1999"], [season |-> "20x4"]}

ArgParts ==
    { EmptyDict,
      [limit |-> 5], [limit |-> 5000],
      [analysis_type |-> "player_xg"], [analysis_type |-> "overperformers"],
      [analysis_type |-> "player_profiles"], [analysis_type |-> "player_war"],
      [analysis_type |-> "player_performance"], [analysis_type |-> "team_performance"],
      [analysis_type |-> "current_form", team |-> "courage"],
      [analysis_type |-> "key_contributors", team |-> "courage"],
      [analysis_type |-> "bogus", team |-> "courage"],
      [player_name |-> "Smith"], [team_name |-> "courage"], [team_name |-> "Thorns"],
      [team |-> " Courage "], [team |-> "courage", sort_by |-> "bogus"],
      [team1 |-> "courage", team2 |-> "thorns"],
      [data_type |-> "games"], [data_type |-> "bogus"],
      [query |-> <<"SELECT", "nwsl_fbref.", "player_stats_all_years">>],
      [query |-> <<"SELECT", "nwsl-data.", "nwsl_fbref.", "player_stats_all_years">>],
      [query |-> <<"DELETE", "nwsl_fbref.", "player_stats_all_years">>],
      [query |-> <<"SELEKT">>],
      [team |-> "courage", fbref_url |-> "https://fbref.com/en/squads/x"] }

OddParts == {EmptyDict, [limit |-> 5], [team |-> "courage"],
             [analysis_type |-> "current_form", team |-> "courage"]}

ArgDicts == {Merge(s, e) : s \in SeasonParts, e \in ArgParts} \cup
            {Merge(s, e) : s \in OddSeasons, e \in OddParts}

ToolNames == DispatchNames \cup {"no_such_tool", ""}

ToolCallBodies ==
    {Object(Some("2.0"), Some("tools/call"), Some(Dict(Present([name |-> n, arguments |-> a]))), Some(JNum(7))) :
        n \in Opt(ToolNames), a \in Opt({Dict(d) : d \in ArgDicts} \cup {JNull})}

MethodNames == {"initialize", "tools/list", "tools/call", "resources/list", "resources/read",
                "prompts/list", "prompts/get"}

EnvelopeBodies ==
    {[kind |-> "unparsable"], [kind |-> "nonobject"]} \cup
    {Object(j, m, p, i) : j \in Opt({"2.0", "1.0"}),
                          m \in Opt(MethodNames \cup {"", "tools/frobnicate"}),
                          p \in Opt({JNull, Dict(EmptyDict)}),
                          i \in Opt(Ids)}

ReadBodies ==
    {Object(Some("2.0"), Some("resources/read"), Some(Dict(Present([uri |-> u]))), Some(i)) :
        u \in Opt({ResourceUris[k] : k \in 1..Len(ResourceUris)} \cup {"nwsl://nope", ""}),
        i \in Ids}

PromptBodies ==
    {Object(Some("2.0"), Some("prompts/get"), Some(Dict(Present([name |-> n, arguments |-> a]))),
            Some(JStr("req-1"))) :
        n \in Opt({PromptNames[k] : k \in 1..Len(PromptNames)} \cup {"no-such-prompt"}),
        a \in Opt({JNull, Dict([season |-> "2023"])})}

\* Calls of a real tool inside an envelope of the wrong version, or with
\* the method left out.
BadVersionCalls ==
    LET call == Some(Dict([name |-> "get_player_stats", arguments |-> Dict([season |-> "2024"])]))
    IN {Object(Some("1.0"), Some("tools/call"), call, Some(JStr("req-1"))),
        Object(Some("2.0"), Absent, call, Some(JStr("req-1")))}

Bodies == ToolCallBodies \cup EnvelopeBodies \cup ReadBodies \cup PromptBodies \cup BadVersionCalls

\* ------------------------------------------------------ fbref_client.py
\* Cap of the two ages the model keeps of the client's clock.
MaxIdle == 8

rate_limit_seconds == 6

\* How long time.sleep oversleeps, and how long a response takes.
Oversleep == {0, 1}
Latency == {0, 1}

\* FBrefAPIClient(): idle is time.time() - self.last_request_time and since
\* the time since the last outbound request, both capped at MaxIdle; sent
\* counts the requests (up to 2) and gap is the smallest separation of two
\* consecutive requests so far.
FBrefAPIClient ==
    [idle |-> MaxIdle, since |-> MaxIdle, sent |-> 0, gap |-> MaxIdle, nwsl_league_id |-> FALSE]

\* d seconds pass.
Elapse(c, d) == [c EXCEPT !.idle = Min2(@ + d, MaxIdle), !.since = Min2(@ + d, MaxIdle)]

\* The same without the sleep.
_enforce_rate_limit_no_sleep(c, over) == [c EXCEPT !.idle = 0]

_enforce_rate_limit(c, over) ==
    IF c.idle < rate_limit_seconds
    THEN [Elapse(c, rate_limit_seconds - c.idle + over) EXCEPT !.idle = 0]
    ELSE [c EXCEPT !.idle = 0]

\* requests.get(...): the request leaves now, the response takes lat seconds.
requests_get(c, lat) ==
    Elapse([c EXCEPT !.gap = IF c.sent > 0 THEN Min2(@, c.since) ELSE @,
                     !.sent = Min2(@ + 1, 2),
                     !.since = 0], lat)

\* self._enforce_rate_limit() followed by requests.get(...), as every
\* request of the client is written.
limited_get(c, over, lat) == requests_get(_enforce_rate_limit(c, over), lat)

\* find_nwsl_league_id: "error" (the countries request failed) and "no_usa"
\* end after one request; "no_league" and "found" after the second.
FindOutcomes == {"error", "no_usa", "no_league", "found"}

find_nwsl_league_id(c, out, over, lat) ==
    IF out \in {"error", "no_usa"} THEN limited_get(c, over, lat)
    ELSE [limited_get(limited_get(c, over, lat), over, lat) EXCEPT
            !.nwsl_league_id = (out = "found")]

\* "if not self.nwsl_league_id: self.find_nwsl_league_id()"
ensure_league_id(c, out, over, lat) ==
    IF c.nwsl_league_id THEN c ELSE find_nwsl_league_id(c, out, over, lat)

get_league_seasons_request(c, over, lat) ==
    IF c.nwsl_league_id THEN limited_get(c, over, lat) ELSE c

get_league_seasons(c, out, over, lat) ==
    get_league_seasons_request(ensure_league_id(c, out, over, lat), over, lat)

\* get_team_season_stats, get_player_season_stats, get_match_stats and
\* get_all_players_match_stats: the request is sent whether or not the
\* league id was found.
get_season_stats(c, out, over, lat) ==
    limited_get(ensure_league_id(c, out, over, lat), over, lat)

test_connection(c, over, lat) == limited_get(c, over, lat)

\* Largest number of rows a fetch returns in the model.
MaxData == 2

\* What a fetch meets: an exception, or a frame of n rows (0: no data).
Fetches == {[err |-> TRUE, n |-> 0]} \cup {[err |-> FALSE, n |-> k] : k \in 0..MaxData}

\* A run that has just started.  Beside the two counts of the code it keeps
\* what happened: met counts the categories gone through and table is the
\* last of them, uploaded counts the uploads that returned rows and
\* uploaded_rows sums what they returned.
Started(job) ==
    [job |-> job, tables_created |-> 0, total_rows |-> 0,
     met |-> 0, table |-> "", uploaded |-> 0, uploaded_rows |-> 0,
     returned |-> FALSE, success |-> TRUE]

\* No ingestion and no deployment is running.
NoRun == [Started("none") EXCEPT !.returned = TRUE]

\* A category has been gone through; rows is what its upload returned
\* (-1: nothing was uploaded).
Logged(r, table, rows) ==
    [r EXCEPT !.met = @ + 1, !.table = table,
              !.uploaded = IF rows > 0 THEN @ + 1 ELSE @,
              !.uploaded_rows = IF rows > 0 THEN @ + rows ELSE @]

\* The four categories of ingest_season_data, in the order of its code.
Categories == <<"nwsl_team_season_stats", "nwsl_player_season_stats", "nwsl_matches",
                "nwsl_all_players_match_stats">>

\* FBrefAPIClient._upload_to_bigquery and deploy_nwsl_data.upload_to_bigquery:
\* len(df), or 0 when df is empty or the load job fails.
upload_to_bigquery(n, ok) == IF n = 0 THEN 0 ELSE IF ok THEN n ELSE 0

\* What a get_*_stats method returns: its except clause turns a failure
\* into an empty frame.
Frame(data) == IF data.err THEN 0 ELSE data.n

Counted(r, table, rows) ==
    Logged([r EXCEPT !.total_rows = @ + rows, !.tables_created = @ + 1], table, rows)

\* The same with a category counted whatever its upload returned.
ingest_category_counting_all(r, table, data, ok) ==
    IF Frame(data) = 0 THEN Logged(r, table, -1)
    ELSE Counted(r, table, upload_to_bigquery(Frame(data), ok))

\* The same with a fetch failure that leaves through the except clause of
\* ingest_season_data.
ingest_category_stopping(r, table, data, ok) ==
    IF data.err THEN [r EXCEPT !.returned = TRUE]
    ELSE IF Frame(data) = 0 THEN Logged(r, table, -1)
    ELSE IF upload_to_bigquery(Frame(data), ok) > 0
         THEN Counted(r, table, upload_to_bigquery(Frame(data), ok))
    ELSE Logged(r, table, 0)

\* One category of ingest_season_data: fetch, upload unless empty, count
\* when the upload returned rows.
ingest_category(r, table, data, ok) ==
    IF Frame(data) = 0 THEN Logged(r, table, -1)
    ELSE IF upload_to_bigquery(Frame(data), ok) > 0
         THEN Counted(r, table, upload_to_bigquery(Frame(data), ok))
    ELSE Logged(r, table, 0)

\* The tables of deploy_nwsl_data_to_bigquery, in the order of its code.
DeployTables == <<"nwsl_players_roster", "nwsl_teams_info", "nwsl_games_2024", "nwsl_games_2023",
                  "nwsl_games_2022", "nwsl_games_2021">>

\* One table of deploy_nwsl_data_to_bigquery: an exception of the fetch is
\* caught by the try of the table; a frame with rows is uploaded and counted.
deploy_table(r, table, data, ok) ==
    IF data.err \/ data.n = 0 THEN Logged(r, table, -1)
    ELSE Counted(r, table, upload_to_bigquery(data.n, ok))

\* No helper has been called yet.
NoCall == [fn |-> "", team_name |-> "", normalized |-> "", renormalized |-> "",
           query |-> <<>>, dataset |-> "", rewritten |-> <<>>, rewritten_again |-> <<>>]

\* ------------------------------------------------------------- the actions
Init ==
    /\ SERVER_TYPE \in {"analytics", "basic"}
    /\ modules \in BOOLEAN
    /\ SERVER_TYPE = "basic" => modules = FALSE
    /\ started = FALSE
    /\ mcp_server = NoServer
    /\ storeUp \in BOOLEAN
    /\ storeRows \in (0..MaxRows) \cup {max_rows, max_rows + 1}
    /\ request = NoRequest
    /\ response = NoResponse
    /\ handlerRan = ""
    /\ queries = <<>>
    /\ page = NoPage
    /\ repeated = FALSE
    /\ inflight = [i \in Slots |-> Idle]
    /\ fb = FBrefAPIClient
    /\ run = NoRun
    /\ applied = NoCall

\* NWSLAnalyticsServer(): the analytics server survives a store client that
\* cannot be constructed (every tool attribute becomes None) and assigns a
\* calculator only when its class was imported; the basic server raises.
Construct(type, mods, clientOk) ==
    IF type = "analytics"
    THEN IF ~clientOk THEN ServerObject(FALSE, "None")
         ELSE ServerObject(TRUE, IF mods THEN "obj" ELSE "unset")
    ELSE IF clientOk THEN ServerObject(TRUE, "unset") ELSE NoServer

\* startup_event: runs once; clientOk tells whether bigquery.Client() could
\* be constructed.
Startup(clientOk) ==
    /\ ~started
    /\ request = NoRequest
    /\ started' = TRUE
    /\ mcp_server' = Construct(SERVER_TYPE, modules, clientOk)
    /\ UNCHANGED <<SERVER_TYPE, modules, storeUp, storeRows, request, response, handlerRan, queries, page, repeated, inflight, fb, run, applied>>

\* The warehouse becomes unreachable, or reachable again.
StoreFails ==
    /\ storeUp /\ request = NoRequest
    /\ storeUp' = FALSE
    /\ UNCHANGED <<SERVER_TYPE, modules, started, mcp_server, storeRows, request, response, handlerRan, queries, page, repeated, inflight, fb, run, applied>>

StoreRecovers ==
    /\ ~storeUp /\ request = NoRequest
    /\ storeUp' = TRUE
    /\ UNCHANGED <<SERVER_TYPE, modules, started, mcp_server, storeRows, request, response, handlerRan, queries, page, repeated, inflight, fb, run, applied>>

\* An ingestion job outside the adapter appends a row.
StoreAppend ==
    /\ storeUp /\ request = NoRequest
    /\ storeRows # MaxRows /\ storeRows <= max_rows
    /\ storeRows' = storeRows + 1
    /\ UNCHANGED <<SERVER_TYPE, modules, started, mcp_server, storeUp, request, response, handlerRan, queries, page, repeated, inflight, fb, run, applied>>

\* The outcomes the scrape of a request can meet: a request that is not a
\* call of ingest_current_roster scrapes nothing.
IsToolCall(body) ==
    /\ body.kind = "object"
    /\ Get(body.d, "method", None) = "tools/call"
    /\ "params" \in DOMAIN body.d
    /\ IsDict(body.d["params"])

CalledTool(body) == Get(body.d["params"].d, "name", None)

WebChoices(body) ==
    IF IsToolCall(body) /\ CalledTool(body) = "ingest_current_roster" THEN WebOutcomes ELSE {"ok"}

\* The same with an endpoint that drops the server object when a handler's
\* exception reaches its outer except clause.
Post_resetting(body, web) ==
    /\ request \in {NoRequest, body}
    /\ \E out \in {mcp_endpoint(body, SERVER_TYPE, mcp_server, storeUp, storeRows, web)} :
          /\ request' = body
          /\ response' = out.response
          /\ handlerRan' = out.handler
          /\ queries' = out.queries
          /\ storeRows' = out.rows
          /\ page' = web
          /\ repeated' = (request = body)
          /\ mcp_server' = IF /\ out.response.kind = "json"
                              /\ "error" \in DOMAIN out.response.body
                              /\ out.response.body.error.code = INTERNAL_ERROR
                           THEN NoServer ELSE mcp_server
    /\ UNCHANGED <<SERVER_TYPE, modules, started, storeUp, inflight, fb, run, applied>>

\* The same with a handler that drops the store client of the server object
\* when its query fails.
Post_closing_client(body, web) ==
    /\ request \in {NoRequest, body}
    /\ \E out \in {mcp_endpoint(body, SERVER_TYPE, mcp_server, storeUp, storeRows, web)} :
          /\ request' = body
          /\ response' = out.response
          /\ handlerRan' = out.handler
          /\ queries' = out.queries
          /\ storeRows' = out.rows
          /\ page' = web
          /\ repeated' = (request = body)
          /\ mcp_server' = IF out.queries # <<>> /\ ~storeUp
                           THEN [mcp_server EXCEPT !.bigquery_client = FALSE] ELSE mcp_server
    /\ UNCHANGED <<SERVER_TYPE, modules, started, storeUp, inflight, fb, run, applied>>

\* POST /mcp with the given body, served to its response: the first request
\* with this body, or the same body sent again once its response is back.
Post(body, web) ==
    /\ request \in {NoRequest, body}
    /\ \E out \in {mcp_endpoint(body, SERVER_TYPE, mcp_server, storeUp, storeRows, web)} :
          /\ request' = body
          /\ response' = out.response
          /\ handlerRan' = out.handler
          /\ queries' = out.queries
          /\ storeRows' = out.rows
          /\ page' = web
          /\ repeated' = (request = body)
    /\ UNCHANGED <<SERVER_TYPE, modules, started, mcp_server, storeUp, inflight, fb, run, applied>>

\* POST /mcp of the first HTTP wrapper (http_server.app, which serves the
\* basic server) with a resources/read of the given uri.
LegacyRead(uri) ==
    /\ request = NoRequest
    /\ SERVER_TYPE = "basic"
    /\ \E out \in {legacy_resources_read(uri, JNum(7), mcp_server, storeUp, storeRows)} :
          /\ request' = [kind |-> "legacy", method |-> "resources/read", uri |-> uri]
          /\ response' = out.response
          /\ handlerRan' = ""
          /\ queries' = out.queries
          /\ storeRows' = out.rows
    /\ page' = NoPage
    /\ repeated' = FALSE
    /\ UNCHANGED <<SERVER_TYPE, modules, started, mcp_server, storeUp, inflight, fb, run, applied>>

\* GET /: answered from the static document, whatever the state of the server.
GetRoot ==
    /\ request = NoRequest
    /\ request' = [kind |-> "get", path |-> "/"]
    /\ response' = JSONResponse(root)
    /\ handlerRan' = ""
    /\ queries' = <<>>
    /\ page' = NoPage
    /\ repeated' = FALSE
    /\ UNCHANGED <<SERVER_TYPE, modules, started, mcp_server, storeUp, storeRows, inflight, fb, run, applied>>

\* The response has been sent: nothing of the request is kept.
Complete ==
    /\ request # NoRequest
    /\ request' = NoRequest
    /\ response' = NoResponse
    /\ handlerRan' = ""
    /\ queries' = <<>>
    /\ page' = NoPage
    /\ repeated' = FALSE
    /\ UNCHANGED <<SERVER_TYPE, modules, started, mcp_server, storeUp, storeRows, inflight, fb, run, applied>>

Next ==
    \/ \E clientOk \in BOOLEAN : Startup(clientOk)
    \/ StoreFails
    \/ StoreRecovers
    \/ StoreAppend
    \/ request = NoRequest /\ \E body \in Bodies : \E web \in WebChoices(body) : Post(body, web)
    \/ request.kind \notin {"none", "get"} /\ \E web \in WebChoices(request) : Post(request, web)
    \/ GetRoot
    \/ \E uri \in {ResourceUris[k] : k \in 1..Len(ResourceUris)} \cup {"nwsl://nope", ""} : LegacyRead(uri)
    \/ Complete

Spec == Init /\ [][Next]_vars

\* ------------------------------------------------- two requests in flight
\* The coroutine of mcp_endpoint suspends at "await request.json()" only:
\* every later await is of a coroutine that never yields (the store client
\* and the scrape are blocking calls), so a request runs from its parsed
\* body to its response in one step of the event loop.
ConcBodies ==
    {Object(Some("2.0"), Some("tools/call"),
            Some(Dict([name |-> "query_raw_data",
                       arguments |-> Dict([query |-> <<"SELECT", "nwsl_fbref.", "player_stats_all_years">>])])),
            Some(JNum(7))),
     Object(Some("2.0"), Some("tools/call"),
            Some(Dict([name |-> "query_raw_data",
                       arguments |-> Dict([query |-> <<"DELETE", "nwsl_fbref.", "player_stats_all_years">>])])),
            Some(JStr("req-1"))),
     Object(Some("2.0"), Some("tools/call"),
            Some(Dict([name |-> "get_player_stats", arguments |-> Dict([season |-> "2024"])])),
            Some(JStr("req-1"))),
     Object(Some("2.0"), Some("tools/call"),
            Some(Dict([name |-> "no_such_tool", arguments |-> Dict(EmptyDict)])), Some(JNum(7))),
     Object(Some("2.0"), Some("tools/list"), Absent, Some(JNum(7))),
     Object(Some("1.0"), Some("tools/list"), Absent, Some(JStr("req-1"))),
     [kind |-> "unparsable"]}

\* A POST /mcp arrives on an idle connection: refused at once when there is
\* no server object, else suspended reading its body.
Arrive(i, body) ==
    /\ inflight[i] = Idle
    /\ inflight' = [inflight EXCEPT ![i] =
            IF mcp_server = NoServer
            THEN [pc |-> "done", body |-> body, response |-> HTTPException(503)]
            ELSE [pc |-> "reading", body |-> body]]
    /\ UNCHANGED <<SERVER_TYPE, modules, started, mcp_server, storeUp, storeRows,
                   request, response, handlerRan, queries, page, repeated, fb, run, applied>>

\* The same with an endpoint that keeps the request id in a module global,
\* written by each request as it arrives.
Handle_global_request_id(i, web) ==
    /\ inflight[i].pc = "reading"
    /\ \E out \in {mcp_endpoint(inflight[i].body, SERVER_TYPE, mcp_server, storeUp, storeRows, web)} :
       \E j \in Slots :
          /\ j = i \/ inflight[j].pc = "reading"
          /\ inflight' = [inflight EXCEPT ![i] =
                [pc |-> "done", body |-> inflight[i].body,
                 response |-> IF out.response.kind = "json" /\ inflight[j].body.kind = "object"
                              THEN [out.response EXCEPT !.body.id = Get(inflight[j].body.d, "id", JNull)]
                              ELSE out.response]]
          /\ storeRows' = out.rows
    /\ UNCHANGED <<SERVER_TYPE, modules, started, mcp_server, storeUp,
                   request, response, handlerRan, queries, page, repeated, fb, run, applied>>

\* The body has been read: the request is parsed, routed, handled and
\* answered without another suspension.
Handle(i, web) ==
    /\ inflight[i].pc = "reading"
    /\ \E out \in {mcp_endpoint(inflight[i].body, SERVER_TYPE, mcp_server, storeUp, storeRows, web)} :
          /\ inflight' = [inflight EXCEPT ![i] =
                [pc |-> "done", body |-> inflight[i].body, response |-> out.response]]
          /\ storeRows' = out.rows
    /\ UNCHANGED <<SERVER_TYPE, modules, started, mcp_server, storeUp,
                   request, response, handlerRan, queries, page, repeated, fb, run, applied>>

\* The response has been sent: the connection is idle again.
Sent(i) ==
    /\ inflight[i].pc = "done"
    /\ inflight' = [inflight EXCEPT ![i] = Idle]
    /\ UNCHANGED <<SERVER_TYPE, modules, started, mcp_server, storeUp, storeRows,
                   request, response, handlerRan, queries, page, repeated, fb, run, applied>>

ConcNext ==
    \/ \E clientOk \in BOOLEAN : Startup(clientOk)
    \/ StoreFails
    \/ StoreRecovers
    \/ StoreAppend
    \/ \E i \in Slots : \E body \in ConcBodies : Arrive(i, body)
    \/ \E i \in Slots : inflight[i].pc = "reading" /\ \E web \in WebChoices(inflight[i].body) : Handle(i, web)
    \/ \E i \in Slots : Sent(i)

SpecConc == Init /\ [][ConcNext]_vars

\* ------------------------------------------- the ingestion side, by itself
\* The variables of the HTTP adapter, which the scripts leave alone.
adapter == <<SERVER_TYPE, modules, started, mcp_server, storeUp, storeRows,
             request, response, handlerRan, queries, page, repeated, inflight>>

\* The client is used by one caller at a time.
ClientFree == run.job # "ingest" \/ run.returned

\* A second passes.
Tick ==
    /\ fb.idle < MaxIdle \/ fb.since < MaxIdle
    /\ fb' = Elapse(fb, 1)
    /\ UNCHANGED <<adapter, run, applied>>

FindLeague(out, over, lat) ==
    /\ ClientFree
    /\ fb' = find_nwsl_league_id(fb, out, over, lat)
    /\ UNCHANGED <<adapter, run, applied>>

LeagueSeasons(out, over, lat) ==
    /\ ClientFree
    /\ fb' = get_league_seasons(fb, out, over, lat)
    /\ UNCHANGED <<adapter, run, applied>>

TestConnection(over, lat) ==
    /\ ClientFree
    /\ fb' = test_connection(fb, over, lat)
    /\ UNCHANGED <<adapter, run, applied>>

\* ingest_season_data(season_id) is called.
IngestStart ==
    /\ run.returned
    /\ run' = Started("ingest")
    /\ UNCHANGED <<adapter, fb, applied>>

\* Its next category: the fetch through the client, then the upload.
IngestCategory(out, data, ok, over, lat) ==
    /\ run.job = "ingest" /\ ~run.returned
    /\ run.met < Len(Categories)
    /\ fb' = get_season_stats(fb, out, over, lat)
    /\ run' = ingest_category(run, Categories[run.met + 1], data, ok)
    /\ UNCHANGED <<adapter, applied>>

IngestReturn ==
    /\ run.job = "ingest" /\ ~run.returned
    /\ run.met = Len(Categories)
    /\ run' = [run EXCEPT !.returned = TRUE]
    /\ UNCHANGED <<adapter, fb, applied>>

\* deploy_nwsl_data_to_bigquery() is called, in a process of its own: the
\* client or the dataset may fail, which ends the deployment at once.
DeployStart(clientOk) ==
    /\ run.returned
    /\ fb = FBrefAPIClient
    /\ run' = IF clientOk THEN Started("deploy")
              ELSE [Started("deploy") EXCEPT !.returned = TRUE, !.success = FALSE]
    /\ UNCHANGED <<adapter, fb, applied>>

DeployTable(data, ok) ==
    /\ run.job = "deploy" /\ ~run.returned
    /\ run.met < Len(DeployTables)
    /\ run' = deploy_table(run, DeployTables[run.met + 1], data, ok)
    /\ UNCHANGED <<adapter, fb, applied>>

\* The unified table is created or not, and the summary is returned.
DeployReturn ==
    /\ run.job = "deploy" /\ ~run.returned
    /\ run.met = Len(DeployTables)
    /\ run' = [run EXCEPT !.returned = TRUE]
    /\ UNCHANGED <<adapter, fb, applied>>

JobsNext ==
    \/ Tick
    \/ \E out \in FindOutcomes, over \in Oversleep, lat \in Latency : FindLeague(out, over, lat)
    \/ \E out \in FindOutcomes, over \in Oversleep, lat \in Latency : LeagueSeasons(out, over, lat)
    \/ \E over \in Oversleep, lat \in Latency : TestConnection(over, lat)
    \/ IngestStart
    \/ \E out \in FindOutcomes, data \in Fetches, ok \in BOOLEAN, over \in Oversleep, lat \in Latency :
          IngestCategory(out, data, ok, over, lat)
    \/ IngestReturn
    \/ \E clientOk \in BOOLEAN : DeployStart(clientOk)
    \/ \E data \in Fetches, ok \in BOOLEAN : DeployTable(data, ok)
    \/ DeployReturn

\* The scripts run without the adapter: its variables stay as they start.
JobsInit == Init /\ SERVER_TYPE = "analytics" /\ modules /\ storeUp /\ storeRows = 0

SpecJobs == JobsInit /\ [][JobsNext]_vars

\* ------------------------------------------------- reading a served request
Ready == mcp_server # NoServer
Serving == request.kind \in {"object", "unparsable", "nonobject"}
IsObject == Serving /\ request.kind = "object"
ValidEnvelope ==
    /\ IsObject
    /\ Get(request.d, "jsonrpc", "2.0") = "2.0"
    /\ ~Falsy(Get(request.d, "method", None))
ReqMethod == Get(request.d, "method", None)
ReqParams == Get(request.d, "params", Dict(EmptyDict))
IsCall == ValidEnvelope /\ IsToolCall(request)
ReqName == CalledTool(request)
ReqArgs == Get(request.d["params"].d, "arguments", Dict(EmptyDict))

IsJson == response.kind = "json"
IsResult == IsJson /\ "result" \in DOMAIN response.body
IsError == IsJson /\ "error" \in DOMAIN response.body
ErrorCode == response.body.error.code
ErrorCodes == {PARSE_ERROR, INVALID_REQUEST, METHOD_NOT_FOUND, INVALID_PARAMS, INTERNAL_ERROR}

\* The catalog tools/list returns in this state of the process.
Catalog == handle_tools_list(SERVER_TYPE, mcp_server).tools
AllTools == ResearchTools \o BasicTools
Declared(name) == {AllTools[i] : i \in {j \in 1..Len(AllTools) : AllTools[j].name = name}}

\* The keys of the arguments whose value is not in the key's enum, outside
\* its minimum/maximum, or off the season pattern.
EnumViolations(tool, d) == {k \in DOMAIN tool.enum \cap DOMAIN d : d[k] \notin tool.enum[k]}
BoundViolations(tool, d) ==
    {k \in DOMAIN tool.bounds \cap DOMAIN d : d[k] < tool.bounds[k][1] \/ d[k] > tool.bounds[k][2]}
PatternViolations(tool, d) == {k \in tool.pattern \cap DOMAIN d : ~MatchesSeasonPattern(d[k])}
MissingRequired(tool, d) == tool.required \ DOMAIN d

Satisfies(tool, a) ==
    /\ IsDict(a)
    /\ MissingRequired(tool, a.d) = {}
    /\ EnumViolations(tool, a.d) = {}
    /\ BoundViolations(tool, a.d) = {}
    /\ PatternViolations(tool, a.d) = {}

ContentTexts == {response.body.result.content[i].text : i \in 1..Len(response.body.result.content)}

\* ---------------------------------------------------------------- the claims

\* C1: every name of the catalog has exactly one descriptor in tools/list, and
\* a tools/call of a catalog tool with arguments that satisfy its schema
\* always returns a result, never a JSON-RPC error.
C1_CatalogCallReturnsResult ==
    Ready =>
        /\ \A i, j \in 1..Len(Catalog) : Catalog[i].name = Catalog[j].name => i = j
        /\ (IsCall /\ \E i \in 1..Len(Catalog) :
                         Catalog[i].name = ReqName /\ Satisfies(Catalog[i], ReqArgs))
              => IsResult

\* C2: a tools/call that omits a required field of the tool's schema is
\* answered with InvalidParams or with a text that names a missing field; it
\* is never served with a default in the field's place, that is, it sends
\* no query and returns no report.
SilentDefault == queries # <<>> \/ (IsResult /\ \E t \in ContentTexts : t.tag = "report")

C2_MissingRequiredIsReported ==
    (Ready /\ IsCall /\ IsDict(ReqArgs)) =>
        \A tool \in Declared(ReqName) :
            MissingRequired(tool, ReqArgs.d) # {} =>
                \/ IsError /\ ErrorCode = INVALID_PARAMS
                \/ IsResult /\ \E t \in ContentTexts : t.mentions \cap MissingRequired(tool, ReqArgs.d) # {}
                \/ ~SilentDefault

\* C3: arguments with a value outside the declared enum or minimum/maximum
\* are rejected with InvalidParams before the handler runs, and no query is
\* sent.
C3_SchemaViolationRejected ==
    (Ready /\ IsCall /\ IsDict(ReqArgs)) =>
        \A tool \in Declared(ReqName) :
            (EnumViolations(tool, ReqArgs.d) \cup BoundViolations(tool, ReqArgs.d)) # {} =>
                /\ IsError /\ ErrorCode = INVALID_PARAMS
                /\ handlerRan = ""
                /\ queries = <<>>

\* C4: a tools/call whose name is the name of no tool is answered with a
\* JSON-RPC error; no handler is invoked and no query is sent.
C4_UnknownToolRejected ==
    (Ready /\ IsCall /\ Declared(ReqName) = {}) =>
        /\ IsError
        /\ handlerRan = ""
        /\ queries = <<>>

C4_Witness ==
    /\ Ready /\ IsCall /\ ReqName = "no_such_tool" /\ IsDict(ReqArgs)
    /\ "season" \in DOMAIN ReqArgs.d /\ storeUp /\ storeRows > 0
    /\ IsError /\ handlerRan = ""

\* C5: error code -32601 is returned for an unknown method name and for no
\* other request.
C5_MethodNotFoundOnlyForUnknownMethod ==
    (Ready /\ ValidEnvelope) =>
        ((IsError /\ ErrorCode = METHOD_NOT_FOUND) <=> ReqMethod \notin MethodNames)

\* C6: the id of a request that parsed as an object comes back unchanged in
\* the response, be it a result or an error.
C6_IdRoundTrip ==
    (Ready /\ IsObject /\ "id" \in DOMAIN request.d) =>
        IsJson /\ response.body.id = request.d["id"]

C6_Witness ==
    /\ Ready /\ IsObject /\ "id" \in DOMAIN request.d
    /\ request.d["id"] = JStr("req-1")
    /\ IsError /\ response.body.id = JStr("req-1")

\* C7: once startup has run, initialize returns protocolVersion, serverInfo
\* and capabilities, whether or not the store client could be constructed
\* and whether or not the store answers.
C7_InitializeSucceeds ==
    (started /\ ValidEnvelope /\ ReqMethod = "initialize" /\ IsDict(ReqParams)) =>
        /\ IsResult
        /\ response.body.result = handle_initialize(Dict(EmptyDict), 0).result

\* C8: a tools/call whose handler met a store-side failure (no store client,
\* a query that failed, a query that returned no rows) returns a result
\* with a text; it never returns a JSON-RPC error.  Arguments that are JSON
\* null stop a handler before it touches the client, so the missing client
\* counts as met only for arguments that are an object.
StoreSideFailure ==
    \/ IsDict(ReqArgs) /\ ~mcp_server.bigquery_client
    \/ \E i \in 1..Len(queries) :
          LET r == RunQuery(storeUp, storeRows, queries[i]) IN r.err # "" \/ r.n = 0

C9_WellFormedResponse ==
    (Ready /\ Serving) =>
        /\ IsJson
        /\ response.body.jsonrpc = "2.0"
        /\ IsResult # IsError
        /\ IsError => ErrorCode \in ErrorCodes

C9_Witness ==
    /\ Ready /\ IsCall /\ handlerRan # ""
    /\ IsError /\ ErrorCode = INTERNAL_ERROR

\* C10: a malformed envelope is refused before any handler or query: a body
\* that does not parse gives -32700 with id null, a body that is no object
\* gives -32600 with id null, a jsonrpc other than "2.0" gives -32600, and a
\* missing or empty method gives -32600.
Refused(code) == IsError /\ ErrorCode = code /\ handlerRan = "" /\ queries = <<>>

C10_MalformedEnvelopeFailsFast ==
    (Ready /\ Serving) =>
        /\ request.kind = "unparsable" => Refused(PARSE_ERROR) /\ response.body.id = JNull
        /\ request.kind = "nonobject" => Refused(INVALID_REQUEST) /\ response.body.id = JNull
        /\ (IsObject /\ Get(request.d, "jsonrpc", "2.0") # "2.0") => Refused(INVALID_REQUEST)
        /\ (IsObject /\ Falsy(ReqMethod)) => Refused(INVALID_REQUEST)

C10_Witness ==
    /\ Ready /\ IsObject
    /\ Get(request.d, "jsonrpc", "2.0") = "1.0" /\ IsToolCall(request)
    /\ CalledTool(request) = "get_player_stats" /\ storeUp
    /\ Refused(INVALID_REQUEST)

C11_StatusWitness == ~Ready /\ request.kind = "get" /\ response = JSONResponse(root)

\* C12: the server object is assigned at most once, by the startup event,
\* and never again: no request, failing or not, changes or resets it, so
\* Ready holds in every state after the one where it first held.
C12_ReadyIsStable ==
    [][mcp_server' # mcp_server => (mcp_server = NoServer /\ ~started /\ started')]_vars

C12_Witness ==
    /\ Ready /\ started /\ SERVER_TYPE = "basic"
    /\ IsCall /\ IsError /\ ErrorCode = INTERNAL_ERROR

\* C13: after startup the catalog tools/list returns never changes, whatever
\* requests are served and whatever the store does, and a tools/list request
\* returns that catalog without running a handler or sending a query.
ToolsListServed == Ready /\ ValidEnvelope /\ ReqMethod = "tools/list"

C13_CatalogFixed ==
    /\ [](ToolsListServed =>
            /\ IsResult
            /\ response.body.result.tools = Catalog
            /\ handlerRan = ""
            /\ queries = <<>>)
    /\ [][started => Catalog' = Catalog]_vars

C13_Witness ==
    /\ ToolsListServed /\ ~storeUp
    /\ IsResult /\ response.body.result.tools = ResearchTools

\* C14: a tools/call whose handler got zero rows from a query returns a
\* result whose content holds exactly one text block; the content is never
\* empty and no exception reaches the dispatcher.
EmptyResultMet ==
    \E i \in 1..Len(queries) :
        LET r == RunQuery(storeUp, storeRows, queries[i]) IN r.err = "" /\ r.n = 0

C14_EmptyResultOneBlock ==
    (Ready /\ IsCall /\ handlerRan # "" /\ EmptyResultMet) =>
        IsResult /\ Len(response.body.result.content) = 1

C14_Witness ==
    /\ Ready /\ IsCall /\ handlerRan = "get_team_stats" /\ storeUp /\ storeRows = 0
    /\ EmptyResultMet
    /\ IsResult /\ Len(response.body.result.content) = 1

\* C15: when a query of a handler that formats query rows (player stats,
\* team stats, standings, player roster, team list, roster analyses, raw
\* query) returns zero rows, the text returned states that no data was
\* found.  The raw query's header spells the row count, which states it.
RowFormatters == {"get_player_stats", "get_team_stats", "get_standings", "get_nwsl_players",
                  "get_nwsl_teams", "get_team_roster", "roster_intelligence", "query_raw_data",
                  "get_raw_data"}

StatesNoData(t) ==
    \/ t.tag = "nodata"
    \/ t.tag = "report" /\ t.what = "Query Results" /\ t.n = 0

C15_EmptyResultSaysNoData ==
    (Ready /\ IsCall /\ handlerRan \in RowFormatters /\ EmptyResultMet) =>
        IsResult /\ \E t \in ContentTexts : StatesNoData(t)

\* C16: the text of a raw query whose result has more than 50 rows renders
\* 50 rows and ends with a note that states the truncation and the total
\* row count; with 50 rows or fewer it renders every row and has no note.
RawReports ==
    IF Ready /\ IsCall /\ handlerRan \in {"query_raw_data", "get_raw_data"} /\ IsResult
    THEN {t \in ContentTexts : t.tag = "report" /\ t.what = "Query Results"}
    ELSE {}

Rendered(t) == {t.parts[i].n : i \in {j \in 1..Len(t.parts) : t.parts[j].tag = "rows"}}
Notes(t) == {t.parts[i].n : i \in {j \in 1..Len(t.parts) : t.parts[j].tag = "note"}}

C16_RawQueryRowGuard ==
    \A t \in RawReports :
        /\ t.n > 50 => Rendered(t) = {50} /\ Notes(t) = {t.n}
        /\ t.n <= 50 => Rendered(t) = {t.n} /\ Notes(t) = {}

C16_Witness ==
    /\ storeRows = 51
    /\ \E t \in RawReports : t.n = 51 /\ Rendered(t) = {50} /\ Notes(t) = {51}

C16_WitnessAtThreshold ==
    /\ storeRows = 50
    /\ \E t \in RawReports : t.n = 50 /\ Rendered(t) = {50} /\ Notes(t) = {}

\* C17: tools/call of get_player_stats with empty arguments returns either
\* an InvalidParams error or the one text "Season parameter is required.",
\* in every server mode, and sends no query to the store.
EmptyPlayerStatsCall ==
    Ready /\ IsCall /\ ReqName = "get_player_stats" /\ IsDict(ReqArgs) /\ DOMAIN ReqArgs.d = {}

C17_SeasonOmittedIsReported ==
    EmptyPlayerStatsCall =>
        /\ queries = <<>>
        /\ \/ IsError /\ ErrorCode = INVALID_PARAMS
           \/ IsResult /\ ContentTexts = {SeasonRequired}

\* C18 as stated: the same tools/call sent again against the store as the
\* first call left it gets the same response.
C18_IdempotentGivenStore ==
    [][(Ready /\ IsCall /\ request' = request) => response' = response]_vars

\* C18, amended: the same tools/call sent again, with the store as the first
\* call left it and the scraped page as the first call met it, gets the same
\* response, reaches the same handler and sends the same queries; and no call
\* changes the server object, the only state the adapter keeps between calls.
SameCallAgain == Ready /\ IsCall /\ request' = request /\ page' = page

C18_Idempotent ==
    [][/\ SameCallAgain => /\ response' = response
                           /\ handlerRan' = handlerRan
                           /\ queries' = queries
       /\ (Ready /\ request' # NoRequest) => /\ mcp_server' = mcp_server
                                             /\ SERVER_TYPE' = SERVER_TYPE]_vars

C18_Witness ==
    /\ repeated /\ Ready /\ IsCall /\ IsResult
    /\ handlerRan = "query_raw_data" /\ queries # <<>> /\ storeUp

\* C19: no tools/call, whatever its tool and arguments, changes the rows the
\* store holds.
C19_CallsAreReadOnly ==
    [][(Ready /\ IsToolCall(request')) => storeRows' = storeRows]_vars

\* C20: with two requests in flight, interleaved in every way the event loop
\* allows, each response carries the id of its own request, is the response
\* the request gets when served alone against the store as it is when its
\* handler runs, and serving one request changes nothing of the other.
Answered(i) == inflight[i].pc = "done" /\ inflight[i].response.kind = "json"
OwnId(i) == IF inflight[i].body.kind = "object" THEN Get(inflight[i].body.d, "id", JNull) ELSE JNull

Alone(i) ==
    mcp_endpoint(inflight[i].body, SERVER_TYPE, mcp_server, storeUp, storeRows, "ok").response

DataBacked == {"nwsl://teams/2024", "nwsl://stats/summary/2024"}
IsRead == ValidEnvelope /\ ReqMethod = "resources/read" /\ IsDict(ReqParams)
ReadUri == IF request.kind = "legacy" THEN request.uri ELSE Get(ReqParams.d, "uri", None)
ReadFails == ~storeUp \/ ~mcp_server.bigquery_client

C21_ReadFailureIsResult ==
    (Ready /\ (IsRead \/ request.kind = "legacy") /\ ReadUri \in DataBacked /\ ReadFails) =>
        /\ IsResult
        /\ response.body.result.contents[1].text.tag = "failed"

\* C22: once startup has run, a resources/read of nwsl://seasons returns the
\* same static text whether the store client is present, absent or failing,
\* and sends no query.
SeasonsRead == IsRead /\ ReadUri = "nwsl://seasons"

C22_SeasonsIsStatic ==
    (started /\ SeasonsRead) =>
        /\ IsResult
        /\ response.body.result = Contents("nwsl://seasons", Note("nwsl://seasons"))
        /\ queries = <<>>

\* C23: any two consecutive outbound requests of one FBrefAPIClient are
\* separated by at least rate_limit_seconds.
C23_RequestsAreSpaced == fb.sent = 2 => fb.gap >= rate_limit_seconds

C23_Witness ==
    /\ fb.sent = 2 /\ fb.gap = rate_limit_seconds /\ fb.idle < rate_limit_seconds
    /\ run.job = "ingest" /\ run.met = 2

\* C27: the tables_created that deploy_nwsl_data_to_bigquery returns is the
\* number of tables whose upload completed with at least one row, and
\* total_rows is the sum of the rows of those tables.
C27_DeployCountsUploads ==
    (run.job = "deploy" /\ run.returned /\ run.success) =>
        /\ run.tables_created = run.uploaded
        /\ run.total_rows = run.uploaded_rows

\* C28: ingest_season_data goes through its four categories in the order of
\* Categories and returns only after the fourth, whatever failed on the way;
\* it counts a category exactly when its upload returned rows, so that
\* 0 <= tables_created <= 4 and total_rows >= tables_created.
C28_IngestSeasonCounts ==
    run.job = "ingest" =>
        /\ run.met \in 0..Len(Categories)
        /\ run.met > 0 => run.table = Categories[run.met]
        /\ run.returned => run.met = Len(Categories) /\ run.success
        /\ run.tables_created \in 0..run.met
        /\ run.total_rows >= run.tables_created
        /\ run.tables_created = run.uploaded
        /\ run.total_rows = run.uploaded_rows

C28_Witness ==
    /\ run.job = "ingest" /\ run.returned /\ run.met = 4
    /\ run.table = "nwsl_all_players_match_stats"
    /\ run.tables_created = 3 /\ run.total_rows = 4

\* C24: tools/call routes a name to a handler exactly when tools/list
\* returns that name in the same state of the process.
Advertised == Names(Catalog)

C24_DispatchMatchesCatalog ==
    (Ready /\ IsCall) => (handlerRan # "" <=> ReqName \in Advertised)

\* The default that the input schemas of expected_goals_analysis and of
\* get_team_roster declare for min_minutes.
xg_min_minutes_default == 450
roster_min_minutes_default == 450

\* C26: when min_minutes is omitted, expected_goals_analysis and
\* get_team_roster put the default their schema declares into every query
\* that filters on minutes.
DeclaredMinMinutes ==
    IF handlerRan = "expected_goals_analysis" THEN xg_min_minutes_default ELSE roster_min_minutes_default

C26_DeclaredDefaultIsUsed ==
    (/\ Ready /\ IsCall /\ handlerRan \in {"expected_goals_analysis", "get_team_roster"}
     /\ IsDict(ReqArgs) /\ "min_minutes" \notin DOMAIN ReqArgs.d) =>
        \A i \in 1..Len(queries) : queries[i].minutes \in {-1, DeclaredMinMinutes}

\* C25: resources/list and resources/read agree: a read of a uri that
\* resources/list returns is answered with a result of one contents entry
\* carrying that uri, and a read of any other uri (or of none) is answered
\* with a JSON-RPC error and no result.
Listed == {handle_resources_list.resources[i].uri : i \in 1..Len(handle_resources_list.resources)}

C25_ListAndReadAgree ==
    (Ready /\ IsRead) =>
        IF ReadUri \in Listed
        THEN /\ IsResult /\ ~IsError
             /\ Len(response.body.result.contents) = 1
             /\ response.body.result.contents[1].uri = ReadUri
        ELSE /\ IsError /\ ~IsResult
             /\ ErrorCode \in {METHOD_NOT_FOUND, INVALID_PARAMS}

C25_Witness ==
    /\ Ready /\ IsRead /\ ReadUri = "nwsl://teams/2024" /\ ReadFails
    /\ IsResult /\ response.body.result.contents[1].uri = "nwsl://teams/2024"

C25_WitnessUnlisted ==
    /\ Ready /\ IsRead /\ ReadUri = "nwsl://nope"
    /\ IsError /\ ErrorCode = METHOD_NOT_FOUND

\* ------------------------------------------------ the helpers of the server
\* The names a caller may pass for a team, and the queries and datasets a
\* caller may pass to query_raw_data.
TeamNames == {None} \cup UNION {Padded(w) : w \in Words}
MaxTokens == 3
SqlTokens == {"SELECT", "nwsl_fbref.", "nwsl_player_stats.", "nwsl-data.", "t"}
Sqls == UNION {[1..n -> SqlTokens] : n \in 0..MaxTokens}
Datasets == {"nwsl_fbref", "nwsl_player_stats"}

\* self._normalize_team_name(team_name), and once more on what it returned.
NormalizeTeamName(team_name) ==
    /\ applied' = [NoCall EXCEPT !.fn = "_normalize_team_name",
                                 !.team_name = team_name,
                                 !.normalized = _normalize_team_name(team_name),
                                 !.renormalized = _normalize_team_name(_normalize_team_name(team_name))]
    /\ UNCHANGED <<adapter, fb, run>>

\* The rewrite of _handle_raw_query, and once more on what it produced.
RewriteQuery(query, dataset) ==
    /\ applied' = [NoCall EXCEPT !.fn = "_handle_raw_query",
                                 !.query = query,
                                 !.dataset = dataset,
                                 !.rewritten = AddProjectPrefix(query, dataset),
                                 !.rewritten_again = AddProjectPrefix(AddProjectPrefix(query, dataset), dataset)]
    /\ UNCHANGED <<adapter, fb, run>>

HelpersNext ==
    \/ \E team_name \in TeamNames : NormalizeTeamName(team_name)
    \/ \E query \in Sqls, dataset \in Datasets : RewriteQuery(query, dataset)

SpecHelpers == JobsInit /\ [][HelpersNext]_vars

\* C29: _normalize_team_name returns every squad name of team_mappings as it
\* is, returns the squad name for every key written in any letter case with
\* spaces around it, returns any other name (the empty one and None
\* included) unchanged, and applied to its own result changes nothing.
SquadNames == {team_mappings[k] : k \in DOMAIN team_mappings}
Spellings(k) == UNION {Padded(c) : c \in {k} \cup {c \in DOMAIN Casings : Casings[c] = k}}
KeysSpelt(name) == {k \in DOMAIN team_mappings : name \in Spellings(k)}

C29_NormalizeTeamName ==
    applied.fn = "_normalize_team_name" =>
        /\ applied.team_name \in SquadNames => applied.normalized = applied.team_name
        /\ \A k \in KeysSpelt(applied.team_name) : applied.normalized = team_mappings[k]
        /\ KeysSpelt(applied.team_name) = {} => applied.normalized = applied.team_name
        /\ applied.renormalized = applied.normalized

C29_Witness ==
    /\ applied.fn = "_normalize_team_name" /\ applied.team_name = " GOTHAM FC "
    /\ applied.normalized = "Gotham FC" /\ applied.renormalized = "Gotham FC"

C29_WitnessUnknown ==
    /\ applied.fn = "_normalize_team_name" /\ applied.team_name = " Lyon"
    /\ applied.normalized = " Lyon"

\* C30: the rewrite of query_raw_data leaves a query that contains
\* "<project_id>." as it is, otherwise puts "<project_id>." before every
\* "<dataset>." and changes nothing else, and applied to its own result
\* changes nothing: no "<project_id>." is followed by another unless the
\* caller wrote it so.
ProjectToken == "nwsl-data."
Count(seq, token) == Cardinality({i \in 1..Len(seq) : seq[i] = token})
IsNotProject(token) == token # ProjectToken
Doubled(seq) == \E i \in 1..(Len(seq) - 1) : seq[i] = ProjectToken /\ seq[i + 1] = ProjectToken

C30_PrefixAppliedOnce ==
    applied.fn = "_handle_raw_query" =>
        /\ Count(applied.query, ProjectToken) > 0 => applied.rewritten = applied.query
        /\ Count(applied.query, ProjectToken) = 0 =>
              /\ SelectSeq(applied.rewritten, IsNotProject) = applied.query
              /\ Count(applied.rewritten, ProjectToken) = Count(applied.query, DatasetToken(applied.dataset))
              /\ \A i \in 1..Len(applied.rewritten) :
                    applied.rewritten[i] = DatasetToken(applied.dataset) =>
                        i > 1 /\ applied.rewritten[i - 1] = ProjectToken
        /\ applied.rewritten_again = applied.rewritten
        /\ Doubled(applied.rewritten_again) => Doubled(applied.query)

C30_Witness ==
    /\ applied.fn = "_handle_raw_query" /\ applied.dataset = "nwsl_fbref"
    /\ applied.query = <<"SELECT", "nwsl_fbref.", "nwsl_fbref.">>
    /\ applied.rewritten = <<"SELECT", "nwsl-data.", "nwsl_fbref.", "nwsl-data.", "nwsl_fbref.">>
    /\ applied.rewritten_again = applied.rewritten

====
